---- MODULE Spec2Model ----
(***************************************************************************)
(* A model of the shogun-kunai stack:                                      *)
(*   Yumi  (src/src/yumi.ts)        the signed channel on the graph store  *)
(*   Yari  (src/unnamed/part_011)   the encrypted overlay                  *)
(*   Kunai (src/src/kunai.ts)       the chunked file transfer engine       *)
(*                                                                         *)
(* Several specifications share the module: SpecChannel (Yumi alone),      *)
(* SpecOverlay (Yari on Yumi), SpecTransfer, SpecCollision and SpecCache   *)
(* (Kunai on Yumi).  Each leaves the variables of the layers it does not   *)
(* run unchanged.  One clock tick is five minutes.                         *)
(***************************************************************************)
EXTENDS Integers, Sequences, FiniteSets, TLC

VARIABLES
    \* ---- Yumi ----
    now,        \* Date.now()
    store,      \* messages/<hash> of the channel: set of {m, t, k} entries
    presence,   \* presence/<address>: address -> {pk, ek, t} or NoRecord
    peers,      \* node -> (address -> PeerInfo)          this.peers
    seen,       \* node -> set of hashes                   this.seen
    callbacks,  \* node -> (key -> callback)               this.callbacks
    api,        \* node -> set of registered call names    this.api
    attached,   \* node -> the messages and presence subscriptions are on
    identifier, \* node -> this.identifier, the channel the node joined
    heartbeattimer, \* node -> the setInterval of heartbeat() is running
    nonce,      \* how many values nacl.randomBytes has produced so far
    lastcount,  \* node -> this.lastpeercount
    out,        \* events emitted by the last step: set of <<node, name, arg>>;
                \* <<node, "throw", address>> is the error thrown to its caller
    dispatched, \* (history) node -> (hash -> number of authenticated dispatches)
    verified,   \* (history) node -> set of <<pk, ek>> seen in a verified envelope
    invoked,    \* (history) node -> sequence of <<callback, result>> invocations
    dropped,    \* (history) the receipt <<node, hash>> the last step dropped, or Nil
    sent,       \* (history) hash -> the send() or rpc() call of the
                \* application that wrote the packet
    \* ---- Kunai ----
    chunkCache, \* node -> (fileId -> {chunks, metadata, timestamp})
    sending,    \* node -> progress of its sendFile call
    files,      \* files/<fileId>: set of metadata records written
    chunks,     \* chunks/<fileId>: set of chunk entries replicated to the receiver
    rx,         \* receiver: fileId -> state of the files-listener closure
    received,   \* (history) sequence of file-received events of the receiver
    uncaught,   \* (history) an error escaped every try/catch
    \* ---- Yari ----
    ypeers,     \* node -> (address -> {pub, epub})        Yari.peers
    ysends,     \* (history) last Yari broadcast: peers in the table, sends made
    processedMessages,  \* node -> set of message ids     Yari.processedMessages
    ypending,   \* node -> the send() calls waiting for the first newPeer
    sea,        \* node -> this.sea, the overlay key pair, or NoSea
    pairing,    \* node -> the SEA() calls waiting for SHOGUN_SEA.pair(): InitCall
                \* for the constructor's, <<"seen", address>> for a seen listener's
    paired,     \* node -> how many pairs SHOGUN_SEA.pair() has returned to it
    cleanupInterval,    \* node -> the setInterval of the trim is running
    advertised  \* (history) node -> set of <<address, pair>> sent by rpc 'peer'

chanVars == <<now, store, presence, peers, seen, callbacks, api, attached,
              identifier, heartbeattimer, nonce,
              lastcount, out, dispatched, verified, invoked, dropped, sent>>
kunaiVars == <<chunkCache, sending, files, chunks, rx, received, uncaught>>
yariVars == <<ypeers, ysends, processedMessages, ypending>>
seaVars == <<sea, pairing, paired, cleanupInterval, advertised>>

vars == <<chanVars, kunaiVars, yariVars, seaVars>>

-----------------------------------------------------------------------------
(* Bounds of the model *)

MaxMsgs == 2
MaxPending == 1     \* calls of Yari.send that wait at one node
MaxTime == 3        \* last value of the clock

-----------------------------------------------------------------------------
(* Identities *)

Nodes == {"A", "B", "C"}

\* this.timeout = opts.timeout || PEERTIMEOUT: 5 * 60 * 1000 ms.  The clock
\* `now` counts ticks of five minutes.
Timeout == 1

\* bs58Encode(this.keyPair.publicKey) and bs58Encode(this.keyPairEncrypt.publicKey)
PkOf(n) == <<"pk", n>>
EkOf(n) == <<"ek", n>>

\* Yumi.address(pk): bs58check(0x55 || ripemd160(sha512(pk)))
Address(pk) == <<"addr", pk[2]>>

AddressOf(n) == Address(PkOf(n))

Addresses == {AddressOf(n) : n \in Nodes}

\* this.identifier: every node is constructed with the same identifier
Identifier == "room"

Nil == <<"nil", 0>>

-----------------------------------------------------------------------------
(* Encodings *)

\* toHex(arr) of a byte array
ToHex(b) == <<"hex", b[2]>>

\* JSON.parse(JSON.stringify(x)) of one field: a Uint8Array comes back as a
\* plain object with index keys, every other value of the model unchanged
JsonRoundTrip(x) == IF x[1] = "u8" THEN <<"indexed", x[2]>> ELSE x

\* obj[key]: a property key that is not a string is converted with String()
PropertyKey(x) == IF x[1] = "hex" THEN x ELSE <<"[object Object]", 0>>

\* toBase64 / fromBase64 of the outer bytes
ToBase64(bytes) == [b64 |-> bytes]
FromBase64(s) == s.b64

\* toHex(nacl.hash(message).slice(16)): collision-free in the model
Hash(bytes) == [h |-> bytes]

\* JSON.stringify / JSON.parse of an application value
JsonStringify(v) == <<"json", v>>
JsonParse(s) == s[2]

\* application values are <<type, payload>>; a JavaScript truthiness test
\* (Nil stands for undefined)
Falsy == {<<"num", 0>>, <<"str", "">>, <<"bool", FALSE>>, <<"null", 0>>, Nil}
Truthy(v) == v \notin Falsy

-----------------------------------------------------------------------------
(* Packets *)

\* nacl.sign.detached(peBytes, secretKey) and nacl.sign.detached.verify
Sign(pe, n) == [by |-> PkOf(n), over |-> pe]
VerifySig(pe, s, pk) == s = [by |-> pk, over |-> pe]

\* makePacket(bugout, params): {t, i, pk, ek, n, ...params}, signed;
\* pe = JSON.stringify(p) is what the receiver parses
MakePacket(n, params, k) ==
    LET p == [t |-> now, i |-> identifier[n], pk |-> PkOf(n), ek |-> EkOf(n),
              n |-> ToHex(<<"u8", k>>),
              y |-> params.y, v |-> params.v, c |-> params.c,
              a |-> params.a, rn |-> JsonRoundTrip(params.rn),
              rr |-> params.rr]
    IN  [s |-> Sign(p, n), p |-> p]

NoParams == [y |-> "", v |-> Nil, c |-> "", a |-> Nil, rn |-> Nil, rr |-> Nil]

\* nacl.box(packet, nonce, theirEk, mysecret) / nacl.box.open: the box opens
\* for the holder of the key it was made for, given the sender's box key
Box(packet, toEk, fromEk) == [to |-> toEk, from |-> fromEk, plain |-> packet]
BoxOpens(e, fromEk, n) == e.to = EkOf(n) /\ e.from = fromEk

\* encryptPacket(bugout, pk, packet) with peer table pn: defined when the
\* peer is known (the caller checks it)
EncryptPacket(n, pn, pk, packet) ==
    [n |-> <<"boxnonce", 0>>, ek |-> EkOf(n),
     e |-> Box(packet, pn[Address(pk)].ek, EkOf(n))]

IsBox(m) == {"e", "n", "ek"} \subseteq DOMAIN m

\* the entry sendRaw writes at messages/<hash>
Entry(message) == [m |-> ToBase64(message), t |-> now, k |-> Hash(message)]

\* the signed packet an entry of the graph carries
EntryPacket(e) ==
    IF IsBox(FromBase64(e.m)) THEN FromBase64(e.m).e.plain.p ELSE FromBase64(e.m).p

\* the key exchange of the overlay: a 'peer' request, or the reply to one
KeyExchange(e) ==
    \/ EntryPacket(e).y = "r" /\ EntryPacket(e).c = "peer"
    \/ /\ EntryPacket(e).y = "rr"
       /\ \E q \in store : /\ EntryPacket(q).y = "r"
                           /\ EntryPacket(q).c = "peer"
                           /\ EntryPacket(q).rn = EntryPacket(e).rn

\* the pings node n has written: one per heartbeat of n
Pings(n) == {e \in store : EntryPacket(e).y = "p" /\ EntryPacket(e).pk = PkOf(n)}

\* the entries under messages/ that count against MaxMsgs: all but the key
\* exchange, which follows from the peers seen, and the pings, which follow
\* from the clock
Load == Cardinality({e \in store : ~KeyExchange(e) /\ EntryPacket(e).y # "p"})

-----------------------------------------------------------------------------
(* Initial state *)

NoRecord == [pk |-> Nil, ek |-> Nil, t |-> 0]

Empty == [x \in {} |-> 0]

\* the channel objects after construction, before any handler is registered
\* the state after the constructors, for nodes constructed with the given
\* identifiers and heartbeat options: if (opts.heartbeat) this.heartbeat(...)
InitYumiOpts(ids, hb) ==
    /\ identifier = ids
    /\ heartbeattimer = hb
    /\ now = 1
    /\ store = {}
    /\ presence = [a \in Addresses |-> NoRecord]
    /\ peers = [n \in Nodes |-> Empty]
    /\ seen = [n \in Nodes |-> {}]
    /\ callbacks = [n \in Nodes |-> Empty]
    /\ nonce = 0
    /\ lastcount = [n \in Nodes |-> 0]
    /\ out = {}
    /\ dispatched = [n \in Nodes |-> Empty]
    /\ verified = [n \in Nodes |-> {}]
    /\ invoked = [n \in Nodes |-> <<>>]
    /\ attached = [n \in Nodes |-> TRUE]
    /\ dropped = Nil
    /\ sent = Empty

\* every node on the channel Identifier, constructed with default options
InitYumi == InitYumiOpts([n \in Nodes |-> Identifier], [n \in Nodes |-> FALSE])

-----------------------------------------------------------------------------
(* Helpers on JavaScript objects used as maps *)

\* the values an application sends, one truthy and one falsy, and the calls
\* it makes with their arguments
Values == {<<"str", "hello">>, <<"num", 0>>}
Calls == {"echo"}
Args == {<<"str", "hello">>}


Put(f, k, v) == [x \in DOMAIN f \cup {k} |-> IF x = k THEN v ELSE f[x]]
Del(f, k) == [x \in DOMAIN f \ {k} |-> f[x]]


-----------------------------------------------------------------------------
(* Kunai: base64 and chunking *)

\* this.chunkSize = opts.chunkSize || CHUNK_SIZE, in base64 characters
ChunkSize == 4

Min(a, b) == IF a < b THEN a ELSE b

\* Buffer.from(bytes).toString('base64'): every group of up to 3 bytes gives
\* 4 characters; a character is modelled by the group it encodes and its place
RECURSIVE ArrayBufferToBase64(_)
ArrayBufferToBase64(bytes) ==
    IF bytes = <<>> THEN <<>>
    ELSE LET group == SubSeq(bytes, 1, Min(3, Len(bytes)))
         IN  [k \in 1..4 |-> <<group, k>>]
                 \o ArrayBufferToBase64(SubSeq(bytes, Len(group) + 1, Len(bytes)))

\* Buffer.from(base64String, 'base64'): 4 characters of one group give its
\* bytes back; characters that do not belong together give other bytes (-1)
RECURSIVE Base64Decode(_)
Base64Decode(str) ==
    IF Len(str) < 4 THEN (IF str = <<>> THEN <<>> ELSE <<-1>>)
    ELSE (IF \A k \in 1..4 : str[k] = <<str[1][1], k>> THEN str[1][1] ELSE <<-1>>)
             \o Base64Decode(SubSeq(str, 5, Len(str)))

\* a count that adds a chunk after the last full one
TotalChunksAndOne(base64Data) == Len(base64Data) \div ChunkSize + 1

\* sendFile: Math.ceil(base64Data.length / this.chunkSize)
TotalChunks(base64Data) == (Len(base64Data) + ChunkSize - 1) \div ChunkSize

\* sendFile: base64Data.slice(i * chunkSize, (i + 1) * chunkSize)
ChunkAt(base64Data, i) ==
    SubSeq(base64Data, i * ChunkSize + 1, Min((i + 1) * ChunkSize, Len(base64Data)))

\* a reassembly check that is content with any stored chunk
AnyChunkPresent(receivedChunks, totalChunks) == receivedChunks # Empty

\* the reassembly loops: every index of [0, totalChunks) has a stored chunk
AllChunksPresent(receivedChunks, totalChunks) ==
    \A i \in 0..(totalChunks - 1) : i \in DOMAIN receivedChunks

\* the indices the reassembly loops report missing
MissingChunks(receivedChunks, totalChunks) ==
    {i \in 0..(totalChunks - 1) : i \notin DOMAIN receivedChunks}

\* the reassembly loops: base64String += receivedChunks[i] for the indices
\* i = 0, 1, ... that have a chunk
RECURSIVE ConcatFrom(_, _, _)
ConcatFrom(receivedChunks, i, totalChunks) ==
    IF i >= totalChunks THEN <<>>
    ELSE (IF i \in DOMAIN receivedChunks THEN receivedChunks[i] ELSE <<>>)
             \o ConcatFrom(receivedChunks, i + 1, totalChunks)

\* reassembleFile: the file-received event
FileReceived(base64String, metadata, fileId) ==
    [filename |-> metadata.name, size |-> metadata.size,
     data |-> Base64Decode(base64String), fileId |-> fileId]

-----------------------------------------------------------------------------
(* RPC handlers registered on the channel (this.api) *)

\* application values are <<type, payload>>
Obj(r) == <<"obj", r>>

\* a handler that replies with every chunk of the cache entry
RequestChunksReplyAll(n, args) ==
    IF args.fileId \notin DOMAIN chunkCache[n]
    THEN Obj([success |-> FALSE, error |-> "File not in cache"])
    ELSE Obj([success |-> TRUE, fileId |-> args.fileId,
              chunks |-> {<<i, chunkCache[n][args.fileId].chunks[i]>> :
                            i \in DOMAIN chunkCache[n][args.fileId].chunks}])

\* Kunai 'request-chunks': the reply for args {fileId, missingChunks}
RequestChunksReply(n, args) ==
    IF args.fileId \notin DOMAIN chunkCache[n]
    THEN Obj([success |-> FALSE, error |-> "File not in cache"])
    ELSE Obj([success |-> TRUE, fileId |-> args.fileId,
              chunks |-> {<<i, chunkCache[n][args.fileId].chunks[i]>> :
                            i \in args.missingChunks \cap
                                  DOMAIN chunkCache[n][args.fileId].chunks}])

\* rpcCall: what the handler of `call` passes to its reply callback
HandlerReply(n, call, args) ==
    CASE call = "request-chunks" -> RequestChunksReply(n, args[2])
      [] call = "transfer-confirmed" -> Obj([success |-> TRUE])
      [] call = "peer" ->
             IF args[2].pub # Nil /\ args[2].epub # Nil
             THEN Obj([success |-> TRUE])
             ELSE Obj([success |-> FALSE, error |-> "Invalid keys"])
      [] OTHER -> args

NoSuchCall == Obj([error |-> "No such API call."])

\* rpcCall: the result the reply packet carries
RpcResult(n, call, args) ==
    IF call \in api[n] THEN HandlerReply(n, call, args) ELSE NoSuchCall

\* the state an RPC handler changes: 'transfer-confirmed' deletes the cache
\* entry, Yari's 'peer' stores the caller's keys
HandlerEffects(n, address, call, args) ==
    /\ chunkCache' = IF call = "transfer-confirmed" /\ call \in api[n]
                     THEN [chunkCache EXCEPT ![n] = Del(@, args[2].fileId)]
                     ELSE chunkCache
    /\ ypeers' = IF call = "peer" /\ call \in api[n]
                              /\ args[2].pub # Nil /\ args[2].epub # Nil
                 THEN [ypeers EXCEPT ![n] = Put(@, address,
                          [pub |-> args[2].pub, epub |-> args[2].epub])]
                 ELSE ypeers

-----------------------------------------------------------------------------
(* Kunai: the callback of requestMissingChunks *)

\* the node that runs the receive path in the transfer specifications
Receiver == "B"

NoMeta == [name |-> "", size |-> 0, totalChunks |-> 0, sender |-> Nil]

NoRx == [metadata |-> NoMeta, receivedChunks |-> Empty,
         collectedChunks |-> 0, isProcessing |-> FALSE, listening |-> FALSE,
         timeoutId |-> FALSE, processedChunkIds |-> {}, mode |-> "",
         sweepAttempts |-> 0, sweepTimer |-> FALSE]

\* requestMissingChunks: receivedChunks[chunk.index] = chunk.data for the reply
WithReplyChunks(receivedChunks, replyChunks) ==
    [i \in DOMAIN receivedChunks \cup {c[1] : c \in replyChunks} |->
        IF \E c \in replyChunks : c[1] = i
        THEN (CHOOSE c \in replyChunks : c[1] = i)[2]
        ELSE receivedChunks[i]]

\* requestMissingChunks: response.success is truthy
Success(res) == res[1] = "obj" /\ "success" \in DOMAIN res[2] /\ res[2].success

\* one file-received event, with the chunks held and the metadata used when it
\* was emitted (history)
Emitted(receivedChunks, metadata, fileId) ==
    [event |-> FileReceived(ConcatFrom(receivedChunks, 0, metadata.totalChunks),
                            metadata, fileId),
     chunks |-> receivedChunks, metadata |-> metadata]

\* the callback <<"chunks", fileId>> completes the transfer with this reply
ReplyCompletes(cb, res) ==
    /\ cb[1] = "chunks"
    /\ Success(res)
    /\ AllChunksPresent(WithReplyChunks(rx[cb[2]].receivedChunks, res[2].chunks),
                        rx[cb[2]].metadata.totalChunks)

\* what invoking callback cb with result res does to the receiver
CallbackEffects(cb, res) ==
    IF cb[1] # "chunks" THEN UNCHANGED <<rx, received>>
    ELSE LET f == cb[2]
             r == rx[f]
         IN  IF ~Success(res)
             THEN /\ rx' = [rx EXCEPT ![f].isProcessing = FALSE]
                  /\ UNCHANGED received
             ELSE LET got == WithReplyChunks(r.receivedChunks, res[2].chunks)
                  IN  IF AllChunksPresent(got, r.metadata.totalChunks)
                      THEN /\ rx' = [rx EXCEPT ![f].receivedChunks = got]
                           /\ received' = Append(received,
                                                 Emitted(got, r.metadata, f))
                      ELSE /\ rx' = [rx EXCEPT ![f].receivedChunks = got,
                                               ![f].isProcessing = FALSE]
                           /\ UNCHANGED received

-----------------------------------------------------------------------------
(* Yumi: sending *)

\* _updateConnections() against peer table pn: the event it emits
ConnectionsEvents(n, pn) ==
    IF Cardinality(DOMAIN pn) # lastcount[n]
    THEN {<<n, "connections", Cardinality(DOMAIN pn)>>}
    ELSE {}

\* sendRaw(bugout, message): the entry written at messages/<hash>, and the
\* hash marked as seen
SendRaw(n, message, seenN) ==
    /\ store' = store \cup {Entry(message)}
    /\ seen' = [seen EXCEPT ![n] = seenN \cup {Hash(message)}]

\* Yumi.send: makePacket(this, {y: "m", v: JSON.stringify(message)})
MessagePacket(n, message) ==
    MakePacket(n, [NoParams EXCEPT !.y = "m", !.v = JsonStringify(message)], nonce)

\* Yumi.send: the packet goes out through sendRaw; call is the send() call made
SendWrites(n, message, call) ==
    /\ Load < MaxMsgs
    /\ SendRaw(n, message, seen[n])
    /\ sent' = Put(sent, Hash(message), call)
    /\ nonce' = nonce + 1
    /\ out' = {}
    /\ dropped' = Nil
    /\ UNCHANGED <<now, presence, peers, callbacks, api, attached,
                   identifier, heartbeattimer, seaVars, lastcount,
                   dispatched, verified, invoked>>

\* throw new Error(address + " not seen - no public key."): nothing was
\* written before the throw
Throws(n, address) ==
    /\ out' = {<<n, "throw", address>>}
    /\ dropped' = Nil
    /\ UNCHANGED <<now, store, presence, peers, seen, callbacks, api, attached,
                   identifier, heartbeattimer, seaVars,
                   nonce, lastcount, dispatched, verified, invoked, sent>>

\* Yumi.send(message): with one argument `message` is undefined, so the
\* argument becomes the message and the address null: a broadcast
Send(n, v) ==
    /\ SendWrites(n, MessagePacket(n, v),
                  [op |-> "send", by |-> n, to |-> Nil, v |-> v])
    /\ UNCHANGED <<kunaiVars, yariVars>>

\* Yumi.send(address, message): if (!message) the address becomes the message
\* and is broadcast; else the packet is boxed for a known peer, or send throws
YumiSend(n, address, v) ==
    LET call == [op |-> "send", by |-> n, to |-> address, v |-> v]
    IN  IF ~Truthy(v)
        THEN SendWrites(n, MessagePacket(n, <<"str", address>>), call)
        ELSE IF address \in DOMAIN peers[n]
             THEN SendWrites(n, EncryptPacket(n, peers[n], peers[n][address].pk,
                                              MessagePacket(n, v)), call)
             ELSE Throws(n, address)

\* Yumi.send(address, message) called by the application
SendTo(n, address, v) ==
    /\ YumiSend(n, address, v)
    /\ UNCHANGED <<kunaiVars, yariVars>>

\* the key under which rpc() stores the callback: toHex(callnonce)
CallbackKey(callnonce) == PropertyKey(ToHex(callnonce))

\* Yumi.rpc: the boxed request packet for a peer of table pn, with callnonce
\* the next random value
RpcRequest(n, pn, address, call, args) ==
    EncryptPacket(n, pn, pn[address].pk,
        MakePacket(n, [NoParams EXCEPT !.y = "r", !.c = call,
                         !.a = JsonStringify(args),
                         !.rn = <<"u8", nonce>>], nonce + 1))

\* Yumi.rpc(address, call, args, callback) to a peer of table pn: the pending
\* callback and the boxed request packet
RpcSend(n, pn, address, call, args, cb, cbs, seenN) ==
    /\ callbacks' = [callbacks EXCEPT ![n] =
                         Put(cbs, CallbackKey(<<"u8", nonce>>), cb)]
    /\ SendRaw(n, RpcRequest(n, pn, address, call, args), seenN)
    /\ nonce' = nonce + 2

\* Yumi.rpc called by the application: the request goes to a known peer, or
\* rpc throws
Rpc(n, address, call, args) ==
    /\ IF address \in DOMAIN peers[n]
       THEN /\ Load < MaxMsgs
            /\ RpcSend(n, peers[n], address, call, args, <<"app", nonce>>,
                       callbacks[n], seen[n])
            /\ sent' = Put(sent, Hash(RpcRequest(n, peers[n], address, call, args)),
                           [op |-> "rpc", by |-> n, to |-> address, v |-> args])
            /\ out' = {}
            /\ dropped' = Nil
            /\ UNCHANGED <<now, presence, peers, api, attached,
                           identifier, heartbeattimer, seaVars, lastcount,
                           dispatched, verified, invoked>>
       ELSE Throws(n, address)
    /\ UNCHANGED <<kunaiVars, yariVars>>

-----------------------------------------------------------------------------
(* Yumi: presence *)

\* _announcePresence()
Announce(n) ==
    /\ presence' = [presence EXCEPT
           ![AddressOf(n)] = [pk |-> PkOf(n), ek |-> EkOf(n), t |-> now]]
    /\ out' = {}
    /\ dropped' = Nil
    /\ UNCHANGED <<now, store, peers, seen, callbacks, api, attached,
                   identifier, heartbeattimer, seaVars, nonce,
                   lastcount, dispatched, verified, invoked, sent>>
    /\ UNCHANGED <<kunaiVars, yariVars>>

\* the presence.map().on callback of _setupPresence, for the record at a
ObservePresence(n, a) ==
    LET data == presence[a]
        address == Address(data.pk)
        wasNew == address \notin DOMAIN peers[n]
        pn == Put(peers[n], address, [pk |-> data.pk, ek |-> data.ek, last |-> now])
    IN  /\ attached[n]
        /\ data.pk # Nil /\ data.ek # Nil /\ data.t # 0
        /\ address # AddressOf(n)
        /\ peers' = [peers EXCEPT ![n] = pn]
        /\ dropped' = Nil
        /\ out' = IF wasNew
                  THEN {<<n, "seen", address>>} \cup ConnectionsEvents(n, pn)
                  ELSE {}
        /\ lastcount' = IF wasNew
                        THEN [lastcount EXCEPT ![n] = Cardinality(DOMAIN pn)]
                        ELSE lastcount
        /\ UNCHANGED <<now, store, presence, seen, callbacks, api, attached,
                       identifier, heartbeattimer, seaVars, nonce,
                       dispatched, verified, invoked, sent>>
        /\ UNCHANGED <<kunaiVars, yariVars>>

\* heartbeat: the peers whose entry is older than the timeout
TimedOut(n) == {a \in DOMAIN peers[n] : peers[n][a].last + Timeout < now}

\* a heartbeat whose eviction loop also drops the overlay keys of the peers
\* it evicts
HeartbeatEvictsKeys(n) ==
    LET pn == [a \in DOMAIN peers[n] \ TimedOut(n) |-> peers[n][a]]
    IN  /\ heartbeattimer[n]
        /\ Cardinality(Pings(n)) < now
        /\ presence' = [presence EXCEPT
               ![AddressOf(n)] = [pk |-> PkOf(n), ek |-> EkOf(n), t |-> now]]
        /\ SendRaw(n, MakePacket(n, [NoParams EXCEPT !.y = "p"], nonce), seen[n])
        /\ nonce' = nonce + 1
        /\ peers' = [peers EXCEPT ![n] = pn]
        /\ ypeers' = [ypeers EXCEPT ![n] =
               [a \in DOMAIN @ \ TimedOut(n) |-> @[a]]]
        /\ out' = {<<n, "timeout", a>> : a \in TimedOut(n)}
                  \cup {<<n, "left", a>> : a \in TimedOut(n)}
                  \cup ConnectionsEvents(n, pn)
        /\ lastcount' = [lastcount EXCEPT ![n] = Cardinality(DOMAIN pn)]
        /\ dropped' = Nil
        /\ UNCHANGED <<now, callbacks, api, attached, identifier,
                       heartbeattimer, seaVars,
                       dispatched, verified, invoked, sent>>
        /\ UNCHANGED <<kunaiVars, ysends, processedMessages, ypending>>

\* the setInterval callback of heartbeat(): _announcePresence, ping, the
\* eviction loop and _updateConnections; the interval is one clock tick, so
\* by the time `now` the timer has fired at most `now` times
Heartbeat(n) ==
    LET pn == [a \in DOMAIN peers[n] \ TimedOut(n) |-> peers[n][a]]
    IN  /\ heartbeattimer[n]
        /\ Cardinality(Pings(n)) < now
        /\ presence' = [presence EXCEPT
               ![AddressOf(n)] = [pk |-> PkOf(n), ek |-> EkOf(n), t |-> now]]
        /\ SendRaw(n, MakePacket(n, [NoParams EXCEPT !.y = "p"], nonce), seen[n])
        /\ nonce' = nonce + 1
        /\ peers' = [peers EXCEPT ![n] = pn]
        /\ out' = {<<n, "timeout", a>> : a \in TimedOut(n)}
                  \cup {<<n, "left", a>> : a \in TimedOut(n)}
                  \cup ConnectionsEvents(n, pn)
        /\ lastcount' = [lastcount EXCEPT ![n] = Cardinality(DOMAIN pn)]
        /\ dropped' = Nil
        /\ UNCHANGED <<now, callbacks, api, attached, identifier,
                       heartbeattimer, seaVars,
                       dispatched, verified, invoked, sent>>
        /\ UNCHANGED <<kunaiVars, yariVars>>

-----------------------------------------------------------------------------
(* Yari: the listener on the 'message' event of its channel *)

\* an engine that was constructed without encryption
EncryptedNever(n) == FALSE

\* the Yari constructor registers the rpc 'peer' on the channel it wraps: the
\* node runs the overlay
Encrypted(n) == "peer" \in api[n]

\* this.SEA().then(...) of the constructor, as a pending call
InitCall == <<"init", Nil>>

\* SHOGUN_SEA.pair(): the k-th pair returned to node n, a fresh one each time
SeaPair(n, k) == [pub |-> <<"pub", n, k>>, epub |-> <<"epub", n, k>>]

\* this.sea = null
NoSea == [pub |-> Nil, epub |-> Nil]

\* the overlay key pair of a node whose constructor's SEA() call was the only
\* one and has completed
SeaOf(n) == SeaPair(n, 1)

\* SEA.encrypt(msg, SEA.secret(epub, this.sea))
SeaEncrypt(msg, epub, n) == <<"sea", [ct |-> msg, to |-> epub, from |-> sea[n].epub]>>

\* SEA.decrypt(message, SEA.secret(epub, this.sea)): the plaintext for the
\* pair of keys the message was encrypted between, else undefined
SeaDecrypt(enc, epub, n) ==
    IF enc[1] = "sea" /\ enc[2].to = sea[n].epub /\ enc[2].from = epub
    THEN enc[2].ct
    ELSE Nil

\* const messageId = msgId || <generated>: msgId is the third argument of the
\* message event, the packet object
MessageIdOf(packet) == <<"obj", packet>>

\* a message id that always has slice, as a string id would
HasSliceAlways(x) == TRUE

\* x.slice is a function: for strings, not for a packet object
HasSlice(x) == x[1] = "str"

\* this.processedMessages.has(messageId): a Set finds an object only by
\* identity, and every receipt parses a new packet object
Processed(n, id) == HasSlice(id) /\ id \in processedMessages[n]

\* the listener runs for a message event of n
YariListens(n, packet) ==
    Encrypted(n) /\ packet.y = "m" /\ Truthy(JsonParse(packet.v))

\* the listener throws at messageId.slice(0, 12), outside its try block
YariListenerThrows(n, packet) ==
    /\ YariListens(n, packet)
    /\ ~Processed(n, MessageIdOf(packet))
    /\ ~HasSlice(MessageIdOf(packet))

\* the decrypted event the listener emits: decrypt() gives null for a peer
\* whose keys are unknown, else the outcome of SEA.decrypt
YariDecrypted(n, address, packet) ==
    LET id == MessageIdOf(packet)
    IN  IF \/ ~YariListens(n, packet)
           \/ Processed(n, id)
           \/ YariListenerThrows(n, packet)
           \/ address \notin DOMAIN ypeers[n]
        THEN {}
        ELSE {<<n, "decrypted",
                <<address, ypeers[n][address],
                  SeaDecrypt(JsonParse(packet.v), ypeers[n][address].epub, n),
                  id>>>>}

-----------------------------------------------------------------------------
(* Yumi: receiving *)

\* a receiver that takes every envelope as opened
OpensAlways(n, message) == TRUE

\* a receiver that forgets what it has seen
AlreadySeenNever(n, hash) == FALSE

\* onMessage: if (bugout.seen[hash]) return
AlreadySeen(n, hash) == hash \in seen[n]

\* onMessage: the box envelope opens with our key, or the packet is plain
Opens(n, message) ==
    IF IsBox(message) THEN BoxOpens(message.e, message.ek, n)
                      ELSE "p" \in DOMAIN message
Unpack(message) == IF IsBox(message) THEN message.e.plain ELSE message

\* a receiver that takes a packet of any age
CheckTimeAlways(n, signed) == TRUE

\* onMessage: checksig, checkid, checktime
CheckSig(signed) == VerifySig(signed.p, signed.s, signed.p.pk)
CheckId(n, signed) == signed.p.i = identifier[n]
CheckTime(n, signed) == signed.p.t + Timeout > now

\* sawPeer: the branch that (re)creates the entry and emits seen
SawPeerIsNew(n, pk) ==
    \/ Address(pk) \notin DOMAIN peers[n]
    \/ peers[n][Address(pk)].last + Timeout < now

\* sawPeer without the test for the own address
SawPeerAnyone(n, pk, ek) ==
    LET address == Address(pk)
    IN  IF SawPeerIsNew(n, pk)
        THEN Put(peers[n], address, [ek |-> ek, pk |-> pk, last |-> now])
        ELSE [peers[n] EXCEPT ![address].ek = ek, ![address].last = now]

\* sawPeer: the peer table after the call
SawPeer(n, pk, ek) ==
    LET address == Address(pk)
    IN  IF address = AddressOf(n) THEN peers[n]
        ELSE IF SawPeerIsNew(n, pk)
             THEN Put(peers[n], address, [ek |-> ek, pk |-> pk, last |-> now])
             ELSE [peers[n] EXCEPT ![address].ek = ek, ![address].last = now]

\* sawPeer: the events it emits (seen, and connections via _updateConnections)
SawPeerEvents(n, pk, ek) ==
    IF Address(pk) # AddressOf(n) /\ SawPeerIsNew(n, pk)
    THEN {<<n, "seen", Address(pk)>>} \cup ConnectionsEvents(n, SawPeer(n, pk, ek))
    ELSE {}

\* sawPeer: this.lastpeercount after the call
SawPeerCount(n, pk, ek) ==
    IF Address(pk) # AddressOf(n) /\ SawPeerIsNew(n, pk)
    THEN Cardinality(DOMAIN SawPeer(n, pk, ek))
    ELSE lastcount[n]

\* onMessage, rr branch: the key under which the pending callback is looked up
ResponseKey(packet) == PropertyKey(packet.rn)

\* onMessage, rr branch: a callback is pending under the nonce of the response
\* and the result is truthy
CallbackFound(n, packet) ==
    /\ ResponseKey(packet) \in DOMAIN callbacks[n]
    /\ Truthy(JsonParse(packet.rr))

\* onMessage for an authenticated packet, by type
OnPacket(n, hash, packet) ==
    LET pk == packet.pk
        address == Address(pk)
        pn == SawPeer(n, pk, packet.ek)
        evs == SawPeerEvents(n, pk, packet.ek)
        seenN == seen[n] \cup {hash}
    IN  /\ lastcount' = [lastcount EXCEPT ![n] = SawPeerCount(n, pk, packet.ek)]
        /\ dispatched' = [dispatched EXCEPT ![n] =
               Put(@, hash, IF hash \in DOMAIN @ THEN @[hash] + 1 ELSE 1)]
        /\ peers' = [peers EXCEPT ![n] =
               IF packet.y = "x" THEN Del(pn, address) ELSE pn]
        /\ CASE packet.y = "m" ->
                  /\ out' = evs \cup
                       (IF Truthy(JsonParse(packet.v))
                        THEN {<<n, "message", <<address, JsonParse(packet.v),
                                                packet>>>>}
                        ELSE {})
                       \cup YariDecrypted(n, address, packet)
                  /\ seen' = [seen EXCEPT ![n] = seenN]
                  /\ UNCHANGED <<store, callbacks, nonce, invoked>>
                  /\ UNCHANGED <<chunkCache, ypeers, rx, received>>
             [] packet.y = "r" ->
                  /\ out' = evs \cup {<<n, "rpc", <<address, packet.c,
                                                    JsonParse(packet.a)>>>>}
                  /\ HandlerEffects(n, address, packet.c, JsonParse(packet.a))
                  /\ IF address \in DOMAIN pn
                     THEN /\ SendRaw(n, EncryptPacket(n, pn, pk,
                                 MakePacket(n, [NoParams EXCEPT !.y = "rr",
                                     !.rn = packet.rn,
                                     !.rr = JsonStringify(RpcResult(n, packet.c,
                                                JsonParse(packet.a)))],
                                     nonce)), seenN)
                          /\ nonce' = nonce + 1
                     ELSE /\ seen' = [seen EXCEPT ![n] = seenN]
                          /\ UNCHANGED <<store, nonce>>
                  /\ UNCHANGED <<callbacks, invoked>>
                  /\ UNCHANGED <<rx, received>>
             [] packet.y = "rr" ->
                  IF CallbackFound(n, packet)
                  THEN LET cb == callbacks[n][ResponseKey(packet)]
                           res == JsonParse(packet.rr)
                           rest == Del(callbacks[n], ResponseKey(packet))
                       IN  /\ out' = evs \cup {<<n, "rpc-response", address>>}
                           /\ invoked' = [invoked EXCEPT ![n] = Append(@, <<cb, res>>)]
                           /\ CallbackEffects(cb, res)
                           /\ IF ReplyCompletes(cb, res)
                              THEN IF rx[cb[2]].metadata.sender \in DOMAIN pn
                                   THEN RpcSend(n, pn, rx[cb[2]].metadata.sender,
                                            "transfer-confirmed",
                                            Obj([fileId |-> cb[2]]), <<"noop", 0>>,
                                            rest, seenN)
                                   ELSE /\ seen' = [seen EXCEPT ![n] = seenN]
                                        /\ UNCHANGED <<store, callbacks, nonce>>
                              ELSE /\ callbacks' = [callbacks EXCEPT ![n] = rest]
                                   /\ seen' = [seen EXCEPT ![n] = seenN]
                                   /\ UNCHANGED <<store, nonce>>
                           /\ UNCHANGED <<chunkCache, ypeers>>
                  ELSE /\ out' = evs
                       /\ seen' = [seen EXCEPT ![n] = seenN]
                       /\ UNCHANGED <<store, callbacks, nonce, invoked>>
                       /\ UNCHANGED <<chunkCache, ypeers, rx, received>>
             [] packet.y = "p" ->
                  /\ out' = evs \cup {<<n, "ping", address>>}
                  /\ seen' = [seen EXCEPT ![n] = seenN]
                  /\ UNCHANGED <<store, callbacks, nonce, invoked>>
                  /\ UNCHANGED <<chunkCache, ypeers, rx, received>>
             [] packet.y = "x" ->
                  /\ out' = evs \cup {<<n, "left", address>>}
                  /\ seen' = [seen EXCEPT ![n] = seenN]
                  /\ UNCHANGED <<store, callbacks, nonce, invoked>>
                  /\ UNCHANGED <<chunkCache, ypeers, rx, received>>
             [] OTHER ->
                  /\ out' = evs
                  /\ seen' = [seen EXCEPT ![n] = seenN]
                  /\ UNCHANGED <<store, callbacks, nonce, invoked>>
                  /\ UNCHANGED <<chunkCache, ypeers, rx, received>>

\* onMessage: the message passes deduplication and every check
Authenticated(n, message) ==
    /\ ~AlreadySeen(n, Hash(message))
    /\ Opens(n, message)
    /\ CheckSig(Unpack(message))
    /\ CheckId(n, Unpack(message))
    /\ CheckTime(n, Unpack(message))

\* onMessage writes a packet (a reply, or the confirmation sent by the
\* callback of requestMissingChunks)
WritesPacket(n, message) ==
    /\ Authenticated(n, message)
    /\ LET packet == Unpack(message).p
       IN  \/ packet.y = "r"
           \/ /\ packet.y = "rr"
              /\ CallbackFound(n, packet)
              /\ ReplyCompletes(callbacks[n][ResponseKey(packet)],
                                JsonParse(packet.rr))

\* onMessage(self, id, message)
OnMessage(n, message) ==
    LET hash == Hash(message)
        signed == Unpack(message)
    IN  /\ (WritesPacket(n, message) /\ signed.p.c # "peer") => Load < MaxMsgs
        /\ verified' = IF ~AlreadySeen(n, hash) /\ Opens(n, message)
                          /\ CheckSig(signed)
                       THEN [verified EXCEPT ![n] =
                                @ \cup {<<signed.p.pk, signed.p.ek>>}]
                       ELSE verified
        /\ dropped' = IF AlreadySeen(n, hash) THEN <<n, hash>> ELSE Nil
        /\ processedMessages' =
               IF Authenticated(n, message) /\ YariListens(n, signed.p)
               THEN [processedMessages EXCEPT ![n] = @ \cup {MessageIdOf(signed.p)}]
               ELSE processedMessages
        /\ uncaught' = (uncaught \/ (/\ Authenticated(n, message)
                                      /\ YariListenerThrows(n, signed.p)))
        /\ IF Authenticated(n, message)
           THEN OnPacket(n, hash, signed.p)
           ELSE /\ seen' = [seen EXCEPT ![n] = @ \cup {hash}]
                /\ out' = {}
                /\ UNCHANGED <<store, peers, callbacks, nonce, lastcount,
                               dispatched, invoked>>
                /\ UNCHANGED <<chunkCache, ypeers, rx, received>>

\* the messages.map().on callback of _setupMessageListener fires for one
\* entry of the graph (any entry, any number of times) and its setTimeout
\* callback runs onMessage on the decoded bytes
Receive(n) ==
    /\ attached[n]
    /\ \E e \in store :
          /\ e.t # 0
          /\ OnMessage(n, FromBase64(e.m))
    /\ UNCHANGED <<now, presence, api, attached, identifier, heartbeattimer,
                   seaVars, sent>>
    /\ UNCHANGED <<sending, files, chunks, ysends, ypending>>

\* time passes: one clock tick
Tick ==
    /\ now < MaxTime
    /\ now' = now + 1
    /\ out' = {}
    /\ dropped' = Nil
    /\ UNCHANGED <<store, presence, peers, seen, callbacks, api, attached,
                   identifier, heartbeattimer, seaVars, nonce,
                   lastcount, dispatched, verified, invoked, sent>>
    /\ UNCHANGED <<kunaiVars, yariVars>>

-----------------------------------------------------------------------------
(* Kunai: sending a file *)

Senders == {"A", "C"}

\* the sender of the transfer specification
Sender == "C"

\* the bytes each sender passes to sendFile in the transfer specifications
FileData(s) == IF s = "A" THEN <<1>> ELSE <<2, 3, 4, 5>>

\* sendFile(file, data): the data argument of the call of s
FileOf(s) == sending[s].data

\* generateTransferCode: a random code; both senders draw from the same codes
TransferCodes == {"f1"}

\* sendFile: the metadata record
Metadata(s) ==
    [name |-> <<"file", s>>, size |-> Len(FileOf(s)),
     totalChunks |-> TotalChunks(ArrayBufferToBase64(FileOf(s))),
     sender |-> AddressOf(s)]

\* a sendFile that writes the chunks from the last index down
WriteChunkDescending(s, f, i, lost) ==
    chunks' = IF lost \/ i >= Metadata(s).totalChunks THEN chunks
              ELSE LET j == Metadata(s).totalChunks - 1 - i
                   IN  chunks \cup {[fileId |-> f, id |-> <<s, j>>, index |-> j,
                                      data |-> ChunkAt(ArrayBufferToBase64(FileOf(s)), j)]}

\* sendFile: fileChunksNode.set(chunkData) for chunk i; the graph may fail to
\* replicate the entry to the receiver
WriteChunk(s, f, i, lost) ==
    chunks' = IF lost \/ i >= Metadata(s).totalChunks THEN chunks
              ELSE chunks \cup {[fileId |-> f, id |-> <<s, i>>, index |-> i,
                                 data |-> ChunkAt(ArrayBufferToBase64(FileOf(s)), i)]}

\* sendFile up to its first await: the metadata and chunk 0 are written
SendFileStart(s, f, lost) ==
    /\ sending[s].pc = "idle"
    /\ files' = files \cup {[fileId |-> f, metadata |-> Metadata(s)]}
    /\ WriteChunk(s, f, 0, lost)
    /\ sending' = [sending EXCEPT ![s].pc = "upload", ![s].fileId = f,
                                  ![s].next = 1]
    /\ out' = {}
    /\ dropped' = Nil
    /\ UNCHANGED <<chunkCache, rx, received, uncaught>>
    /\ UNCHANGED <<now, store, presence, peers, seen, callbacks, api, attached,
                   identifier, heartbeattimer, seaVars,
                   nonce, lastcount, dispatched, verified, invoked, sent>>
    /\ UNCHANGED yariVars

\* sendFile resumes after the batch delay and writes the next chunk
SendFileNext(s, lost) ==
    /\ sending[s].pc = "upload"
    /\ sending[s].next < Metadata(s).totalChunks
    /\ WriteChunk(s, sending[s].fileId, sending[s].next, lost)
    /\ sending' = [sending EXCEPT ![s].next = @ + 1]
    /\ out' = {}
    /\ dropped' = Nil
    /\ UNCHANGED <<chunkCache, files, rx, received, uncaught>>
    /\ UNCHANGED <<now, store, presence, peers, seen, callbacks, api, attached,
                   identifier, heartbeattimer, seaVars,
                   nonce, lastcount, dispatched, verified, invoked, sent>>
    /\ UNCHANGED yariVars

\* sendFile resumes after the last delay: the cache entry is stored and
\* transfer-complete is emitted
SendFileDone(s) ==
    /\ sending[s].pc = "upload"
    /\ sending[s].next >= Metadata(s).totalChunks
    /\ chunkCache' = [chunkCache EXCEPT ![s] = Put(@, sending[s].fileId,
           [chunks |-> [i \in 0..(Metadata(s).totalChunks - 1) |->
                           ChunkAt(ArrayBufferToBase64(FileOf(s)), i)],
            metadata |-> Metadata(s), timestamp |-> now])]
    /\ sending' = [sending EXCEPT ![s].pc = "done"]
    /\ out' = {<<s, "transfer-complete", sending[s].fileId>>}
    /\ dropped' = Nil
    /\ UNCHANGED <<files, chunks, rx, received, uncaught>>
    /\ UNCHANGED <<now, store, presence, peers, seen, callbacks, api, attached,
                   identifier, heartbeattimer, seaVars,
                   nonce, lastcount, dispatched, verified, invoked, sent>>
    /\ UNCHANGED yariVars

\* private CACHE_RETENTION = 5 * 60 * 1000 ms: one clock tick
CACHE_RETENTION == 1

\* a cache sweeper that evicts an entry as soon as it is CACHE_RETENTION old
ExpiredEarly(cached) == now - cached.timestamp >= CACHE_RETENTION

\* startCacheCleanup: now - cached.timestamp > this.CACHE_RETENTION
Expired(cached) == now - cached.timestamp > CACHE_RETENTION

\* the setInterval callback of startCacheCleanup
CacheCleanup(s) ==
    /\ chunkCache' = [chunkCache EXCEPT ![s] =
           [f \in {g \in DOMAIN @ : ~Expired(@[g])} |-> @[f]]]
    /\ out' = {}
    /\ dropped' = Nil
    /\ UNCHANGED <<sending, files, chunks, rx, received, uncaught>>
    /\ UNCHANGED <<now, store, presence, peers, seen, callbacks, api, attached,
                   identifier, heartbeattimer, seaVars,
                   nonce, lastcount, dispatched, verified, invoked, sent>>
    /\ UNCHANGED yariVars

\* Kunai.destroy(): the cache is cleared; Yumi.destroy() writes a leave packet
\* and detaches the subscriptions
Destroy(s) ==
    /\ Load < MaxMsgs
    /\ chunkCache' = [chunkCache EXCEPT ![s] = Empty]
    /\ SendRaw(s, MakePacket(s, [NoParams EXCEPT !.y = "x"], nonce), seen[s])
    /\ nonce' = nonce + 1
    /\ attached' = [attached EXCEPT ![s] = FALSE]
    /\ heartbeattimer' = [heartbeattimer EXCEPT ![s] = FALSE]
    /\ UNCHANGED <<identifier, seaVars>>
    /\ out' = {}
    /\ dropped' = Nil
    /\ UNCHANGED <<sending, files, chunks, rx, received, uncaught>>
    /\ UNCHANGED <<now, presence, peers, callbacks, api, lastcount, dispatched,
                   verified, invoked, sent>>
    /\ UNCHANGED yariVars

-----------------------------------------------------------------------------
(* Kunai: receiving a file (the closures of setupGunDBFileListeners) *)

\* const maxSweeps = 5
MaxSweeps == 5

\* the chunk listener and the sweeps: if (!receivedChunks[chunk.index]) store it
StoreChunk(r, c) ==
    IF c.index \in DOMAIN r.receivedChunks THEN r
    ELSE [r EXCEPT !.receivedChunks = Put(@, c.index, c.data),
                   !.collectedChunks = @ + 1]

\* performSweep / performTimeoutSweep, first call
StartSweeps(r, mode) ==
    [r EXCEPT !.isProcessing = TRUE, !.listening = FALSE, !.mode = mode,
              !.sweepAttempts = 1, !.sweepTimer = TRUE]

\* a files listener without the processedFiles set: every metadata update of
\* a foreign sender starts a reception
FileDetectedAgain(f) ==
    /\ \E m \in files :
          /\ m.fileId = f
          /\ m.metadata.sender # AddressOf(Receiver)
          /\ rx' = Put(rx, f, [NoRx EXCEPT !.metadata = m.metadata,
                                            !.listening = TRUE, !.timeoutId = TRUE])
    /\ out' = {}
    /\ dropped' = Nil
    /\ UNCHANGED <<chunkCache, sending, files, chunks, received, uncaught>>
    /\ UNCHANGED <<now, store, presence, peers, seen, callbacks, api, attached,
                   identifier, heartbeattimer, seaVars,
                   nonce, lastcount, dispatched, verified, invoked, sent>>
    /\ UNCHANGED yariVars

\* the files.map().on callback, for a file id seen for the first time
FileDetected(f) ==
    /\ f \notin DOMAIN rx
    /\ \E m \in files :
          /\ m.fileId = f
          /\ m.metadata.sender # AddressOf(Receiver)
          /\ rx' = Put(rx, f, [NoRx EXCEPT !.metadata = m.metadata,
                                            !.listening = TRUE, !.timeoutId = TRUE])
    /\ out' = {}
    /\ dropped' = Nil
    /\ UNCHANGED <<chunkCache, sending, files, chunks, received, uncaught>>
    /\ UNCHANGED <<now, store, presence, peers, seen, callbacks, api, attached,
                   identifier, heartbeattimer, seaVars,
                   nonce, lastcount, dispatched, verified, invoked, sent>>
    /\ UNCHANGED yariVars

\* the chunks/<fileId>.map().on callback, for one chunk entry
ChunkArrives(f) ==
    /\ f \in DOMAIN rx
    /\ rx[f].listening
    /\ ~rx[f].isProcessing
    /\ \E c \in chunks :
          /\ c.fileId = f
          /\ c.id \notin rx[f].processedChunkIds
          /\ LET r == [StoreChunk(rx[f], c) EXCEPT
                          !.processedChunkIds = @ \cup {c.id}]
             IN  rx' = [rx EXCEPT ![f] =
                     IF r.collectedChunks >= r.metadata.totalChunks
                     THEN StartSweeps([r EXCEPT !.timeoutId = FALSE], "final")
                     ELSE r]
    /\ out' = {}
    /\ dropped' = Nil
    /\ UNCHANGED <<chunkCache, sending, files, chunks, received, uncaught>>
    /\ UNCHANGED <<now, store, presence, peers, seen, callbacks, api, attached,
                   identifier, heartbeattimer, seaVars,
                   nonce, lastcount, dispatched, verified, invoked, sent>>
    /\ UNCHANGED yariVars

\* the map().once callback of a sweep, for one chunk entry not stored yet
SweepCollect(f) ==
    /\ f \in DOMAIN rx
    /\ rx[f].sweepTimer
    /\ \E c \in chunks :
          /\ c.fileId = f
          /\ c.index \notin DOMAIN rx[f].receivedChunks
          /\ rx' = [rx EXCEPT ![f] = StoreChunk(@, c)]
    /\ out' = {}
    /\ dropped' = Nil
    /\ UNCHANGED <<chunkCache, sending, files, chunks, received, uncaught>>
    /\ UNCHANGED <<now, store, presence, peers, seen, callbacks, api, attached,
                   identifier, heartbeattimer, seaVars,
                   nonce, lastcount, dispatched, verified, invoked, sent>>
    /\ UNCHANGED yariVars

\* the transfer timeout: setTimeout(..., timeoutDuration)
TimeoutFires(f) ==
    /\ f \in DOMAIN rx
    /\ rx[f].timeoutId
    /\ rx' = [rx EXCEPT ![f] =
           IF ~@.isProcessing /\ @.collectedChunks > 0
           THEN StartSweeps([@ EXCEPT !.timeoutId = FALSE], "timeout")
           ELSE [@ EXCEPT !.timeoutId = FALSE]]
    /\ out' = {}
    /\ dropped' = Nil
    /\ UNCHANGED <<chunkCache, sending, files, chunks, received, uncaught>>
    /\ UNCHANGED <<now, store, presence, peers, seen, callbacks, api, attached,
                   identifier, heartbeattimer, seaVars,
                   nonce, lastcount, dispatched, verified, invoked, sent>>
    /\ UNCHANGED yariVars

\* a sweep procedure that allows one sweep more than maxSweeps
SweepContinuesOnceMore(r) ==
    /\ r.metadata.totalChunks - r.collectedChunks > 0
    /\ r.sweepAttempts <= MaxSweeps

\* the sweep goes on: missingAfter > 0 && sweepAttempts < maxSweeps
SweepContinues(r) ==
    /\ r.metadata.totalChunks - r.collectedChunks > 0
    /\ r.sweepAttempts < MaxSweeps

\* the 2 s timer of a sweep ends it with a packet to the sender
SweepWritesPacket(r) ==
    /\ ~SweepContinues(r)
    /\ r.mode = "timeout"
    /\ r.metadata.sender \in DOMAIN peers[Receiver]

\* the setTimeout callback of performSweep and of performTimeoutSweep
SweepTimer(f) ==
    /\ f \in DOMAIN rx
    /\ rx[f].sweepTimer
    /\ SweepWritesPacket(rx[f]) => Load < MaxMsgs
    /\ LET r == rx[f]
           all == AllChunksPresent(r.receivedChunks, r.metadata.totalChunks)
           known == r.metadata.sender \in DOMAIN peers[Receiver]
           stopped == [r EXCEPT !.sweepTimer = FALSE]
       IN  /\ rx' = [rx EXCEPT ![f] =
                  IF SweepContinues(r) THEN [r EXCEPT !.sweepAttempts = @ + 1]
                  ELSE IF all THEN stopped
                  ELSE IF r.mode = "timeout" /\ known
                       THEN [stopped EXCEPT !.mode = "requested"]
                       ELSE [stopped EXCEPT !.isProcessing = FALSE]]
           /\ received' = IF ~SweepContinues(r) /\ all
                          THEN Append(received, Emitted(r.receivedChunks, r.metadata, f))
                          ELSE received
           /\ uncaught' = (uncaught \/
                  (~SweepContinues(r) /\ all /\ r.mode = "timeout" /\ ~known))
           /\ IF SweepWritesPacket(r)
              THEN IF all
                   THEN RpcSend(Receiver, peers[Receiver], r.metadata.sender,
                                "transfer-confirmed", Obj([fileId |-> f]),
                                <<"noop", 0>>, callbacks[Receiver], seen[Receiver])
                   ELSE RpcSend(Receiver, peers[Receiver], r.metadata.sender,
                                "request-chunks",
                                Obj([fileId |-> f, missingChunks |->
                                     MissingChunks(r.receivedChunks,
                                                   r.metadata.totalChunks)]),
                                <<"chunks", f>>, callbacks[Receiver], seen[Receiver])
              ELSE UNCHANGED <<store, seen, callbacks, nonce>>
    /\ out' = {}
    /\ dropped' = Nil
    /\ UNCHANGED <<chunkCache, sending, files, chunks>>
    /\ UNCHANGED <<now, presence, peers, api, attached,
                   identifier, heartbeattimer, seaVars, lastcount, dispatched,
                   verified, invoked, sent>>
    /\ UNCHANGED yariVars

\* time passes until every cache entry written so far is past its retention
LongWait ==
    /\ now + CACHE_RETENTION + 1 <= MaxTime
    /\ now' = now + CACHE_RETENTION + 1
    /\ out' = {}
    /\ dropped' = Nil
    /\ UNCHANGED <<store, presence, peers, seen, callbacks, api, attached,
                   identifier, heartbeattimer, seaVars, nonce,
                   lastcount, dispatched, verified, invoked, sent>>
    /\ UNCHANGED <<kunaiVars, yariVars>>

-----------------------------------------------------------------------------
(* Initial states *)

\* the engines after construction; input[n] is the data n will pass to sendFile
InitKunaiFiles(input) ==
    /\ chunkCache = [n \in Nodes |-> Empty]
    /\ sending = [n \in Nodes |-> [pc |-> "idle", fileId |-> "", next |-> 0,
                                    data |-> input[n]]]
    /\ files = {}
    /\ chunks = {}
    /\ rx = [f \in {} |-> NoRx]
    /\ received = <<>>
    /\ uncaught = FALSE

InitKunai == InitKunaiFiles([n \in Nodes |-> FileData(n)])

\* the key initialisation of the constructor has completed before anything
\* else happened: this.sea is the first pair, the trim timer runs
InitSea ==
    /\ sea = [n \in Nodes |-> SeaOf(n)]
    /\ pairing = [n \in Nodes |-> {}]
    /\ paired = [n \in Nodes |-> 1]
    /\ cleanupInterval = [n \in Nodes |-> TRUE]
    /\ advertised = [n \in Nodes |-> {}]

InitYari ==
    /\ ypeers = [n \in Nodes |-> Empty]
    /\ ysends = [peers |-> 0, sends |-> 0]
    /\ processedMessages = [n \in Nodes |-> {}]
    /\ ypending = [n \in Nodes |-> {}]
    /\ InitSea

\* the overlays right after their constructors, before SHOGUN_SEA.pair() has
\* returned: this.sea = null, cleanupInterval = null
InitYariPending ==
    /\ ypeers = [n \in Nodes |-> Empty]
    /\ ysends = [peers |-> 0, sends |-> 0]
    /\ processedMessages = [n \in Nodes |-> {}]
    /\ ypending = [n \in Nodes |-> {}]
    /\ sea = [n \in Nodes |-> NoSea]
    /\ pairing = [n \in Nodes |-> {InitCall}]
    /\ paired = [n \in Nodes |-> 0]
    /\ cleanupInterval = [n \in Nodes |-> FALSE]
    /\ advertised = [n \in Nodes |-> {}]

-----------------------------------------------------------------------------
(* The channel alone: two nodes, application sends and calls *)

ChannelNodes == {"A", "B"}

NextChannel ==
    \/ \E n \in ChannelNodes, v \in Values : Send(n, v)
    \/ \E n \in ChannelNodes, a \in Addresses, c \in Calls, v \in Args :
           Rpc(n, a, c, v)
    \/ \E n \in ChannelNodes : Announce(n)
    \/ \E n \in ChannelNodes, a \in Addresses : ObservePresence(n, a)
    \/ \E n \in ChannelNodes : Receive(n)

\* the application registers one handler, echo, which replies with its args
InitChannel ==
    /\ InitYumi
    /\ api = [n \in Nodes |-> {"echo"}]
    /\ InitKunai
    /\ InitYari

SpecChannel == InitChannel /\ [][NextChannel]_vars

-----------------------------------------------------------------------------
(* Directed traffic on a channel of three nodes: A sends and calls, B has
   announced itself, all three listen *)

NextDirected ==
    \/ \E a \in Addresses, v \in Values : SendTo("A", a, v)
    \/ \E a \in Addresses, c \in Calls, v \in Args : Rpc("A", a, c, v)
    \/ Announce("B")
    \/ ObservePresence("A", AddressOf("B"))
    \/ \E n \in Nodes : Receive(n)

SpecDirected == InitChannel /\ [][NextDirected]_vars

-----------------------------------------------------------------------------
(* Packets of another channel and old packets: A broadcasts, a node C that was
   constructed with another identifier has its broadcasts written under this
   channel, A and B listen, time passes *)

\* this.identifier of a node constructed with another identifier
OtherIdentifier == "lobby"

\* makePacket of such a node: signed by it, with its identifier in i
ForeignPacket(n, params, k) ==
    LET p == [MakePacket(n, params, k).p EXCEPT !.i = OtherIdentifier]
    IN  [s |-> Sign(p, n), p |-> p]

\* the broadcast of a node of the other channel arrives under messages/ of
\* this channel
WriteForeign(n, v) ==
    /\ Load < MaxMsgs
    /\ store' = store \cup {Entry(ForeignPacket(n, [NoParams EXCEPT !.y = "m",
                                     !.v = JsonStringify(v)], nonce))}
    /\ nonce' = nonce + 1
    /\ out' = {}
    /\ dropped' = Nil
    /\ UNCHANGED <<now, presence, peers, seen, callbacks, api, attached,
                   identifier, heartbeattimer, seaVars,
                   lastcount, dispatched, verified, invoked, sent>>
    /\ UNCHANGED <<kunaiVars, yariVars>>

NextFilter ==
    \/ \E v \in Args : Send("A", v)
    \/ \E v \in Args : WriteForeign("C", v)
    \/ \E n \in ChannelNodes : Receive(n)
    \/ Tick

SpecFilter == InitChannel /\ [][NextFilter]_vars

\* a second instance constructed from the seed of node n broadcasts: its
\* sendRaw writes the entry, signed with the keys of n, and marks the hash as
\* seen in its own table, not in that of n
WriteTwin(n, v) ==
    /\ Load < MaxMsgs
    /\ store' = store \cup {Entry(MessagePacket(n, v))}
    /\ nonce' = nonce + 1
    /\ out' = {}
    /\ dropped' = Nil
    /\ UNCHANGED <<now, presence, peers, seen, callbacks, api, attached,
                   identifier, heartbeattimer, seaVars,
                   lastcount, dispatched, verified, invoked, sent>>
    /\ UNCHANGED <<kunaiVars, yariVars>>

NextSelf ==
    \/ Announce("A")
    \/ \E n \in ChannelNodes : ObservePresence(n, AddressOf("A"))
    \/ \E v \in Args : WriteTwin("A", v)
    \/ \E n \in ChannelNodes : Receive(n)
    \/ Tick

SpecSelf == InitChannel /\ [][NextSelf]_vars

-----------------------------------------------------------------------------
(* Liveness of peers: A is constructed with default options, B with the
   heartbeat option; C announces itself and may fall silent *)

InitHeartbeat ==
    /\ InitYumiOpts([n \in Nodes |-> Identifier], [n \in Nodes |-> n = "B"])
    /\ api = [n \in Nodes |-> {}]
    /\ InitKunai
    /\ InitYari

NextHeartbeat ==
    \/ Announce("C")
    \/ \E n \in ChannelNodes : ObservePresence(n, AddressOf("C"))
    \/ Receive("A")
    \/ \E n \in ChannelNodes : Heartbeat(n)
    \/ Tick

SpecHeartbeat == InitHeartbeat /\ [][NextHeartbeat]_vars

\* the clock runs and every heartbeat timer that was started keeps firing
SpecHeartbeatFair ==
    /\ SpecHeartbeat
    /\ WF_vars(Tick)
    /\ \A n \in ChannelNodes : WF_vars(Heartbeat(n))

-----------------------------------------------------------------------------
(* File transfer: senders A and C, receiver B, lossy replication of chunks *)

\* every Kunai registers request-chunks and transfer-confirmed
InitTransfer ==
    /\ InitYumi
    /\ api = [n \in Nodes |-> {"request-chunks", "transfer-confirmed"}]
    /\ InitKunai
    /\ InitYari

NextTransfer ==
    \/ \E f \in TransferCodes, lost \in BOOLEAN : SendFileStart(Sender, f, lost)
    \/ \E lost \in BOOLEAN : SendFileNext(Sender, lost)
    \/ SendFileDone(Sender)
    \/ \E f \in TransferCodes : FileDetected(f)
    \/ \E f \in TransferCodes : ChunkArrives(f)
    \/ \E f \in TransferCodes : SweepCollect(f)
    \/ \E f \in TransferCodes : TimeoutFires(f)
    \/ \E f \in TransferCodes : SweepTimer(f)
    \/ Announce(Sender)
    \/ ObservePresence(Receiver, AddressOf(Sender))
    \/ \E n \in {Sender, Receiver} : Receive(n)
    \/ CacheCleanup(Sender)
    \/ LongWait

SpecTransfer == InitTransfer /\ [][NextTransfer]_vars

\* the timers of the receive path fire, and an entry of the graph that a node
\* has not processed yet is eventually handed to its onMessage
SpecTransferFair ==
    /\ SpecTransfer
    /\ \A f \in TransferCodes : WF_vars(TimeoutFires(f)) /\ WF_vars(SweepTimer(f))
    /\ \A n \in {Sender, Receiver} : WF_vars(Receive(n) /\ seen'[n] # seen[n])

-----------------------------------------------------------------------------
(* Two senders under one transfer code: the graph only, no channel traffic *)

NextCollision ==
    \/ \E s \in Senders, f \in TransferCodes, lost \in BOOLEAN :
           SendFileStart(s, f, lost)
    \/ \E s \in Senders, lost \in BOOLEAN : SendFileNext(s, lost)
    \/ \E s \in Senders : SendFileDone(s)
    \/ \E f \in TransferCodes : FileDetected(f)
    \/ \E f \in TransferCodes : ChunkArrives(f)
    \/ \E f \in TransferCodes : SweepCollect(f)
    \/ \E f \in TransferCodes : TimeoutFires(f)
    \/ \E f \in TransferCodes : SweepTimer(f)

SpecCollision == InitTransfer /\ [][NextCollision]_vars

-----------------------------------------------------------------------------
(* The receiver publishes a transfer of its own under the transfer code of a
   foreign sender: the files listener sees both metadata records *)

NextReception ==
    \/ \E s \in {Sender, Receiver}, f \in TransferCodes, lost \in BOOLEAN :
           SendFileStart(s, f, lost)
    \/ \E s \in {Sender, Receiver}, lost \in BOOLEAN : SendFileNext(s, lost)
    \/ \E s \in {Sender, Receiver} : SendFileDone(s)
    \/ \E f \in TransferCodes : FileDetected(f)
    \/ \E f \in TransferCodes : ChunkArrives(f)
    \/ \E f \in TransferCodes : SweepCollect(f)
    \/ \E f \in TransferCodes : TimeoutFires(f)
    \/ \E f \in TransferCodes : SweepTimer(f)

SpecReception == InitTransfer /\ [][NextReception]_vars

-----------------------------------------------------------------------------
(* Two channels on one graph: the sender C has joined OtherIdentifier, the
   receiver B has joined Identifier; C takes part through sendFile only *)

InitShared ==
    /\ InitYumiOpts([n \in Nodes |-> IF n = "C" THEN OtherIdentifier
                                               ELSE Identifier],
                    [n \in Nodes |-> FALSE])
    /\ api = [n \in Nodes |-> {"request-chunks", "transfer-confirmed"}]
    /\ InitKunai
    /\ InitYari

NextShared ==
    \/ \E f \in TransferCodes, lost \in BOOLEAN : SendFileStart("C", f, lost)
    \/ \E lost \in BOOLEAN : SendFileNext("C", lost)
    \/ SendFileDone("C")
    \/ \E f \in TransferCodes : FileDetected(f)
    \/ \E f \in TransferCodes : ChunkArrives(f)
    \/ \E f \in TransferCodes : SweepCollect(f)
    \/ \E f \in TransferCodes : TimeoutFires(f)
    \/ \E f \in TransferCodes : SweepTimer(f)

SpecShared == InitShared /\ [][NextShared]_vars

-----------------------------------------------------------------------------
(* Chunking: one sender, files of every length up to MaxBytes, lossy
   replication of chunks *)

MaxBytes == 12

\* the data passed to sendFile: k bytes, for every k up to MaxBytes
Files == {[i \in 1..k |-> i] : k \in 1..MaxBytes}

InitChunking ==
    /\ InitYumi
    /\ api = [n \in Nodes |-> {"request-chunks", "transfer-confirmed"}]
    /\ \E data \in Files : InitKunaiFiles([n \in Nodes |-> data])
    /\ InitYari

NextChunking ==
    \/ \E f \in TransferCodes, lost \in BOOLEAN : SendFileStart(Sender, f, lost)
    \/ \E lost \in BOOLEAN : SendFileNext(Sender, lost)
    \/ SendFileDone(Sender)

SpecChunking == InitChunking /\ [][NextChunking]_vars

-----------------------------------------------------------------------------
(* The sender cache over time: one sender, a peer that confirms through the
   public rpc(), a clock *)

NextCache ==
    \/ \E f \in TransferCodes : SendFileStart(Sender, f, FALSE)
    \/ SendFileNext(Sender, FALSE)
    \/ SendFileDone(Sender)
    \/ Announce(Sender)
    \/ ObservePresence(Receiver, AddressOf(Sender))
    \/ \E f \in TransferCodes :
           Rpc(Receiver, AddressOf(Sender), "transfer-confirmed", Obj([fileId |-> f]))
    \/ Receive(Sender)
    \/ CacheCleanup(Sender)
    \/ Destroy(Sender)
    \/ Tick

SpecCache == InitTransfer /\ [][NextCache]_vars

-----------------------------------------------------------------------------
(* The request-chunks handler: the sender with and without its cache entry,
   a peer that asks for every list of indices up to MaxIndex through rpc() *)

MaxIndex == 2

\* the args of a request-chunks request: { fileId, missingChunks }
Requests ==
    {Obj([fileId |-> f, missingChunks |-> m]) :
        f \in TransferCodes, m \in SUBSET (0..MaxIndex)}

NextHandler ==
    \/ \E f \in TransferCodes : SendFileStart(Sender, f, FALSE)
    \/ SendFileNext(Sender, FALSE)
    \/ SendFileDone(Sender)
    \/ Announce(Sender)
    \/ ObservePresence(Receiver, AddressOf(Sender))
    \/ \E r \in Requests : Rpc(Receiver, AddressOf(Sender), "request-chunks", r)
    \/ Receive(Sender)

SpecHandler == InitTransfer /\ [][NextHandler]_vars

-----------------------------------------------------------------------------
(* Teardown: a transfer towards a receiver whose application calls destroy()
   once, at any moment *)

NextTeardown ==
    \/ \E f \in TransferCodes : SendFileStart(Sender, f, FALSE)
    \/ SendFileNext(Sender, FALSE)
    \/ SendFileDone(Sender)
    \/ \E f \in TransferCodes : FileDetected(f)
    \/ \E f \in TransferCodes : ChunkArrives(f)
    \/ \E f \in TransferCodes : SweepCollect(f)
    \/ \E f \in TransferCodes : TimeoutFires(f)
    \/ \E f \in TransferCodes : SweepTimer(f)
    \/ Announce(Sender)
    \/ ObservePresence(Receiver, AddressOf(Sender))
    \/ \E n \in {Sender, Receiver} : Receive(n)
    \/ CacheCleanup(Receiver)
    \/ attached[Receiver] /\ Destroy(Receiver)

SpecTeardown == InitTransfer /\ [][NextTeardown]_vars

-----------------------------------------------------------------------------
(* Yari: the encrypted overlay on a channel *)

\* Yari.send: the array emitted as 'encoded' for one peer
Encoded(peer, enc, msgId) == <<peer, enc, msgId>>

\* the 'encoded' handler: Array.isArray(encrypted) && encrypted.length === 2
EncodedAccepted(encrypted) == Len(encrypted) = 2

\* the rpc 'peer' of the seen listener: our keys go to the peer; rpc throws
\* inside the async listener when the address is not in the peer table
SendKeys(n, a, pair) ==
    /\ IF a \in DOMAIN peers[n]
       THEN /\ RpcSend(n, peers[n], a, "peer", Obj(pair), <<"keys", a>>,
                       callbacks[n], seen[n])
            /\ advertised' = [advertised EXCEPT ![n] = @ \cup {<<a, pair>>}]
            /\ UNCHANGED uncaught
       ELSE /\ uncaught' = TRUE
            /\ UNCHANGED <<store, seen, callbacks, nonce, advertised>>
    /\ out' = {}
    /\ dropped' = Nil
    /\ UNCHANGED <<now, presence, peers, api, attached,
                   identifier, heartbeattimer, lastcount, dispatched,
                   verified, invoked, sent>>
    /\ UNCHANGED <<chunkCache, sending, files, chunks, rx, received>>
    /\ UNCHANGED yariVars

\* the yumi 'seen' listener of Yari: if (!this.sea) await this.SEA(), which
\* starts a call of SHOGUN_SEA.pair(); else our keys go to the new peer
YariSeen(n, a) ==
    /\ <<n, "seen", a>> \in out
    /\ a \in DOMAIN peers[n]
    /\ IF sea[n] = NoSea
       THEN /\ pairing' = [pairing EXCEPT ![n] = @ \cup {<<"seen", a>>}]
            /\ out' = {}
            /\ dropped' = Nil
            /\ UNCHANGED <<sea, paired, cleanupInterval, advertised>>
            /\ UNCHANGED <<now, store, presence, peers, seen, callbacks, api,
                           attached, identifier, heartbeattimer, nonce,
                           lastcount, dispatched, verified, invoked, sent>>
            /\ UNCHANGED <<kunaiVars, yariVars>>
       ELSE /\ SendKeys(n, a, sea[n])
            /\ UNCHANGED <<sea, pairing, paired, cleanupInterval>>

\* SHOGUN_SEA.pair() returns to the SEA() call c of node n: this.sea is set
\* to the new pair, and the caller resumes: the constructor starts the trim
\* timer, a seen listener sends the keys
PairResolves(n, c) ==
    LET pair == SeaPair(n, paired[n] + 1)
    IN  /\ c \in pairing[n]
        /\ sea' = [sea EXCEPT ![n] = pair]
        /\ paired' = [paired EXCEPT ![n] = @ + 1]
        /\ pairing' = [pairing EXCEPT ![n] = @ \ {c}]
        /\ IF c = InitCall
           THEN /\ cleanupInterval' = [cleanupInterval EXCEPT ![n] = TRUE]
                /\ out' = {}
                /\ dropped' = Nil
                /\ UNCHANGED advertised
                /\ UNCHANGED <<now, store, presence, peers, seen, callbacks,
                               api, attached, identifier, heartbeattimer,
                               nonce, lastcount, dispatched, verified,
                               invoked, sent>>
                /\ UNCHANGED <<kunaiVars, yariVars>>
           ELSE /\ SendKeys(n, c[2], pair)
                /\ UNCHANGED cleanupInterval

\* cleanupProcessedMessages: above 1000 ids, the last 500 are kept
TrimAbove == 1000
TrimKeep == 500

\* the setInterval callback of the trim timer: cleanupProcessedMessages (the
\* set of the model has no insertion order: some TrimKeep ids are kept)
Trim(n) ==
    /\ cleanupInterval[n]
    /\ processedMessages' =
           IF Cardinality(processedMessages[n]) > TrimAbove
           THEN [processedMessages EXCEPT ![n] =
                    CHOOSE kept \in SUBSET @ : Cardinality(kept) = TrimKeep]
           ELSE processedMessages
    /\ out' = {}
    /\ dropped' = Nil
    /\ UNCHANGED <<ypeers, ysends, ypending>>
    /\ UNCHANGED <<now, store, presence, peers, seen, callbacks, api, attached,
                   identifier, heartbeattimer, seaVars,
                   nonce, lastcount, dispatched, verified, invoked, sent>>
    /\ UNCHANGED kunaiVars

\* Yari.destroy(): the trim timer is cleared if it is set, the seen-id set is
\* cleared, and Yumi.destroy() writes a leave packet and detaches
YariDestroy(n) ==
    /\ Load < MaxMsgs
    /\ cleanupInterval' = [cleanupInterval EXCEPT ![n] = FALSE]
    /\ processedMessages' = [processedMessages EXCEPT ![n] = {}]
    /\ SendRaw(n, MakePacket(n, [NoParams EXCEPT !.y = "x"], nonce), seen[n])
    /\ nonce' = nonce + 1
    /\ attached' = [attached EXCEPT ![n] = FALSE]
    /\ heartbeattimer' = [heartbeattimer EXCEPT ![n] = FALSE]
    /\ out' = {}
    /\ dropped' = Nil
    /\ UNCHANGED <<ypeers, ysends, ypending>>
    /\ UNCHANGED <<sea, pairing, paired, advertised>>
    /\ UNCHANGED <<now, presence, peers, callbacks, api, identifier, lastcount,
                   dispatched, verified, invoked, sent>>
    /\ UNCHANGED kunaiVars

\* a step of the overlay that leaves the channel as it is
Quiet ==
    /\ out' = {}
    /\ dropped' = Nil
    /\ UNCHANGED <<now, store, presence, peers, seen, callbacks, api, attached,
                   identifier, heartbeattimer, seaVars,
                   nonce, lastcount, dispatched, verified, invoked, sent>>

\* the 'encoded' listener: yumi.send(address, data) for the arrays it accepts,
\* a warning for the others
EncodedHandler(n, encrypted) ==
    IF EncodedAccepted(encrypted)
    THEN YumiSend(n, encrypted[1], encrypted[2])
    ELSE Quiet

\* the 'encoded' listener run on a pair [address, data] for an overlay peer
OnEncoded(n, p, msg) ==
    /\ p \in DOMAIN ypeers[n]
    /\ EncodedHandler(n, <<p, SeaEncrypt(msg, ypeers[n][p].epub, n)>>)
    /\ UNCHANGED <<kunaiVars, yariVars>>

\* Yari.send, the broadcast branch: one 'encoded' event per overlay peer,
\* each handled by the 'encoded' listener
YariBroadcast(n, msg) ==
    LET encoded == {Encoded(p, SeaEncrypt(msg, ypeers[n][p].epub, n),
                            <<"msgId", n>>) : p \in DOMAIN ypeers[n]}
        accepted == {e \in encoded : EncodedAccepted(e) /\ e[1] \in DOMAIN peers[n]}
        packets == {EncryptPacket(n, peers[n], peers[n][e[1]].pk,
                        MakePacket(n, [NoParams EXCEPT !.y = "m",
                                         !.v = JsonStringify(e[2])], nonce)) :
                    e \in accepted}
    IN  /\ Load + Cardinality(accepted) <= MaxMsgs
        /\ store' = store \cup {Entry(m) : m \in packets}
        /\ seen' = [seen EXCEPT ![n] = @ \cup {Hash(m) : m \in packets}]
        /\ nonce' = nonce + Cardinality(accepted)
        /\ ysends' = [peers |-> Cardinality(DOMAIN ypeers[n]),
                      sends |-> Cardinality(accepted)]
        /\ out' = {}
        /\ dropped' = Nil
        /\ UNCHANGED <<now, presence, peers, callbacks, api, attached,
                       identifier, heartbeattimer, seaVars, lastcount,
                       dispatched, verified, invoked, sent>>

\* Yari.send, the direct branch: throw new Error('Peer not found: ' + address)
\* for an address outside the overlay table, else one 'encoded' event
YariDirect(n, address, msg) ==
    /\ IF address \notin DOMAIN ypeers[n]
       THEN Throws(n, address)
       ELSE EncodedHandler(n, Encoded(address,
                SeaEncrypt(msg, ypeers[n][address].epub, n), <<"msgId", n>>))
    /\ UNCHANGED ysends

\* Yari.send after its wait: if (!message) the first argument is broadcast
YariAfterWait(n, address, message) ==
    IF ~Truthy(message) THEN YariBroadcast(n, address)
                        ELSE YariDirect(n, address, message)

\* Yari.send(address, message): with an empty overlay table the call waits for
\* the first newPeer event
YariCall(n, address, message) ==
    /\ IF ypeers[n] = Empty
       THEN /\ Cardinality(ypending[n]) < MaxPending
            /\ ypending' = [ypending EXCEPT ![n] = @ \cup {<<address, message>>}]
            /\ Quiet
            /\ UNCHANGED ysends
       ELSE /\ YariAfterWait(n, address, message)
            /\ UNCHANGED ypending
    /\ UNCHANGED <<kunaiVars, ypeers, processedMessages>>

\* a waiting Yari.send resumes after newPeer
YariResume(n) ==
    /\ ypeers[n] # Empty
    /\ \E call \in ypending[n] :
          /\ YariAfterWait(n, call[1], call[2])
          /\ ypending' = [ypending EXCEPT ![n] = @ \ {call}]
    /\ UNCHANGED <<kunaiVars, ypeers, processedMessages>>

\* Yari.send(msg) and Yari.send(address, msg)
YariSend(n, msg) == YariCall(n, msg, Nil)
YariSendTo(n, address, msg) == YariCall(n, address, msg)

\* Kunai.send(message) and Kunai.send(address, message): through Yari if the
\* engine was constructed with encryption, else through Yumi
KunaiSend(n, v) == IF Encrypted(n) THEN YariSend(n, v) ELSE Send(n, v)
KunaiSendTo(n, address, v) ==
    IF Encrypted(n) THEN YariSendTo(n, address, v) ELSE SendTo(n, address, v)

\* every Yari registers the rpc 'peer'
InitOverlay ==
    /\ InitYumi
    /\ api = [n \in Nodes |-> {"peer"}]
    /\ InitKunai
    /\ InitYari

NextOverlay ==
    \/ \E n \in ChannelNodes : Announce(n)
    \/ \E n \in ChannelNodes, a \in Addresses : ObservePresence(n, a)
    \/ \E n \in ChannelNodes, a \in Addresses : YariSeen(n, a)
    \/ \E n \in ChannelNodes : Receive(n)
    \/ \E v \in Values : KunaiSend("A", v)
    \/ \E a \in {AddressOf("B"), AddressOf("C")}, v \in Values :
           KunaiSendTo("A", a, v)
    \/ YariResume("A")

SpecOverlay == InitOverlay /\ [][NextOverlay]_vars

\* the overlay receiving: the key exchange, and A's 'encoded' listener run on
\* pairs for B
NextDecrypt ==
    \/ \E n \in ChannelNodes : Announce(n)
    \/ \E n \in ChannelNodes, a \in Addresses : ObservePresence(n, a)
    \/ \E n \in ChannelNodes, a \in Addresses : YariSeen(n, a)
    \/ \E n \in ChannelNodes : Receive(n)
    \/ \E v \in Args : OnEncoded("A", AddressOf("B"), v)

SpecDecrypt == InitOverlay /\ [][NextDecrypt]_vars

\* the overlay receiving what it cannot decrypt: A sends B values that are
\* not overlay ciphertext, before and after B has got A's keys
NextUndecryptable ==
    \/ Announce("B")
    \/ ObservePresence("A", AddressOf("B"))
    \/ YariSeen("A", AddressOf("B"))
    \/ \E v \in Values : SendTo("A", AddressOf("B"), v)
    \/ \E n \in ChannelNodes : Receive(n)

SpecUndecryptable == InitOverlay /\ [][NextUndecryptable]_vars

\* the overlay of A from the return of its constructor: B and C are seen
\* before or after SHOGUN_SEA.pair() returns, and A is destroyed at any time
InitKeys ==
    /\ InitYumi
    /\ api = [n \in Nodes |-> {"peer"}]
    /\ InitKunai
    /\ InitYariPending

NextKeys ==
    \/ \E n \in {"B", "C"} : Announce(n)
    \/ \E a \in {AddressOf("B"), AddressOf("C")} : ObservePresence("A", a)
    \/ \E a \in {AddressOf("B"), AddressOf("C")} : YariSeen("A", a)
    \/ \E c \in {InitCall} \cup {<<"seen", a>> : a \in Addresses} :
           PairResolves("A", c)
    \/ Trim("A")
    \/ attached["A"] /\ YariDestroy("A")

SpecKeys == InitKeys /\ [][NextKeys]_vars

\* two overlays, A with a heartbeat: B sends A its keys, then B is destroyed
\* or falls silent, and A's channel forgets B
InitFrame ==
    /\ InitYumiOpts([n \in Nodes |-> Identifier], [n \in Nodes |-> n = "A"])
    /\ api = [n \in Nodes |-> {"peer"}]
    /\ InitKunai
    /\ InitYari

NextFrame ==
    \/ ObservePresence("B", AddressOf("A"))
    \/ YariSeen("B", AddressOf("A"))
    \/ Receive("A")
    \/ Heartbeat("A")
    \/ Tick
    \/ attached["B"] /\ YariDestroy("B")
    \/ Trim("A")

SpecFrame == InitFrame /\ [][NextFrame]_vars

-----------------------------------------------------------------------------
(* Claims about the channel *)

\* every packet a node has dispatched is marked as seen and was dispatched once
DispatchedOnce ==
    \A n \in Nodes : \A h \in DOMAIN dispatched[n] :
        h \in seen[n] /\ dispatched[n][h] = 1

\* a step never dispatches a packet whose hash is already in the seen set
SeenNotDispatched ==
    \A n \in Nodes : \A h \in seen[n] :
        h \in DOMAIN dispatched'[n] =>
            h \in DOMAIN dispatched[n] /\ dispatched'[n][h] = dispatched[n][h]

\* a receipt dropped as a duplicate emits nothing and leaves the peer table,
\* the pending calls and the graph as they were
DropIsSilent ==
    dropped' # Nil =>
        /\ out' = {}
        /\ UNCHANGED <<peers, lastcount, dispatched, callbacks, store, seen>>

\* C1: under at-least-once, reordered delivery a node dispatches each distinct
\* packet (by the hash of its outer bytes) at most once: the hash enters the
\* seen set on first receipt, and every later receipt of the same bytes is
\* dropped without emitting an event or changing the peer table.
C1_DispatchAtMostOnce ==
    [] DispatchedOnce /\ [][SeenNotDispatched /\ DropIsSilent]_vars

\* a packet that was dispatched once has been received again and dropped
C1_DuplicateDropped ==
    /\ dropped # Nil
    /\ dropped[2] \in DOMAIN dispatched[dropped[1]]
    /\ dispatched[dropped[1]][dropped[2]] = 1

\* C2: every entry of the peer table (address -> signing key, box key) is
\* backed by a signature-verified envelope this node received, whose signing
\* key derives to that address and whose ek is the stored box key; for entries
\* made by sawPeer and by the presence subscription alike.  (Violated: the
\* presence subscription inserts keys read from an unsigned record.)
C2_PeersBackedByVerifiedEnvelope ==
    \A n \in Nodes : \A a \in DOMAIN peers[n] :
        /\ Address(peers[n][a].pk) = a
        /\ <<peers[n][a].pk, peers[n][a].ek>> \in verified[n]

\* the rpc responses a node has dispatched
ResponsesDispatched(n) ==
    {h \in DOMAIN dispatched[n] : Unpack(h.h).p.y = "rr"}

\* C10: for every rpc to a known peer whose request and response are both
\* delivered, the caller finds the pending entry under the nonce carried back
\* in the response, invokes the callback exactly once with the handler's
\* reply, and removes the entry from the pending-calls table.  (Violated: the
\* entry is stored under the hex nonce and looked up under the nonce object.)
C10_ResponseInvokesCallback ==
    \A n \in Nodes :
        /\ Cardinality(ResponsesDispatched(n)) = Len(invoked[n])
        /\ \A h \in ResponsesDispatched(n) :
              /\ ToHex(<<"u8", Unpack(h.h).p.rn[2]>>) \notin DOMAIN callbacks[n]
              /\ \E i \in 1..Len(invoked[n]) :
                    invoked[n][i][2] = JsonParse(Unpack(h.h).p.rr)

\* the signed packet inside the message with hash h
PacketOf(h) == Unpack(h.h).p

\* the hashes node n sees for the first time in this step
FirstSeen(n) == seen'[n] \ seen[n]

\* the message event node n emits for the packet with hash h
MessageEventFor(n, h) ==
    <<n, "message", <<Address(PacketOf(h).pk), JsonParse(PacketOf(h).v),
                      PacketOf(h)>>>>

\* h is a broadcast of another node than n that is fresh now
FreshBroadcastOfOther(n, h) ==
    /\ ~IsBox(h.h)
    /\ PacketOf(h).y = "m"
    /\ PacketOf(h).pk # PkOf(n)
    /\ PacketOf(h).i = Identifier
    /\ ~(PacketOf(h).t + Timeout < now)

\* nothing has been observed from a for longer than the timeout, and a is in
\* the peer table of n
Silent(n, a) == a \in TimedOut(n)

\* C24: for a channel constructed with default options (A), a peer from which
\* nothing has been observed for longer than timeout is eventually removed
\* from the peer table at a heartbeat tick; and a heartbeat removes a peer
\* only if last_seen + timeout < now, with a timeout and a left event.
\* (Violated: without opts.heartbeat the constructor starts no heartbeat.)
C24_SilentPeerEventuallyRemoved ==
    /\ \A a \in Addresses : Silent("A", a) ~> ~Silent("A", a)
    /\ [][\A n \in Nodes : \A a \in DOMAIN peers[n] :
            (a \notin DOMAIN peers'[n] /\ <<n, "timeout", a>> \in out') =>
                /\ peers[n][a].last + Timeout < now
                /\ <<n, "left", a>> \in out']_vars

\* C25: seen(address) is emitted only when the address was absent from the
\* peer table immediately before the update, on the packet path and on the
\* presence path alike.  (Violated: sawPeer also takes an entry older than
\* the timeout for a new peer.)
C25_SeenOnlyOnFirstSighting ==
    [][\A n \in Nodes : \A a \in Addresses :
          <<n, "seen", a>> \in out' => a \notin DOMAIN peers[n]]_vars

\* C22: a connections(count) event is emitted on every change of the number
\* of known peers, so that after every processed packet and presence update
\* the count last emitted (this.lastpeercount) equals connections().
\* (Violated: the leave branch of onMessage deletes the peer without calling
\* _updateConnections.)
C22_LastCountIsConnections ==
    \A n \in Nodes : lastcount[n] = Cardinality(DOMAIN peers[n])

\* C11: a node never emits a message event for a packet it sent itself,
\* however often the graph echoes it back; every other node that observes the
\* broadcast while it is fresh emits message(sender address, value, packet)
\* exactly once: on the first receipt, and never without a first receipt.
\* (Violated: a broadcast of a falsy value gives no message event, see C12.)
C11_BroadcastReachesOthersOnce ==
    /\ [] (\A ev \in out : ev[2] = "message" => ev[3][1] # AddressOf(ev[1]))
    /\ [][\A n \in Nodes :
            /\ \A h \in FirstSeen(n) :
                  FreshBroadcastOfOther(n, h) => MessageEventFor(n, h) \in out'
            /\ \A ev \in out' :
                  (ev[1] = n /\ ev[2] = "message") =>
                      \E h \in FirstSeen(n) : ev = MessageEventFor(n, h)]_vars

\* the packets node n dispatches in this step
FirstDispatched(n) == DOMAIN dispatched'[n] \ DOMAIN dispatched[n]

\* C12: for every JSON value v, the falsy values included, the message event
\* of a receiver carries the v passed to send, for send(v) and for
\* send(address, v), which reaches only the addressed peer.  (Violated:
\* a falsy v is not delivered, and send(address, v) with a falsy v broadcasts
\* the address.)
C12_ReceiverGetsValueSent ==
    [][\A n \in Nodes : \A h \in FirstDispatched(n) :
          (h \in DOMAIN sent /\ sent[h].op = "send") =>
              /\ <<n, "message", <<AddressOf(sent[h].by), sent[h].v,
                                   PacketOf(h)>>>> \in out'
              /\ sent[h].to # Nil => sent[h].to = AddressOf(n)]_vars

\* C13: for a directed send from A to B, a third node C that observes the
\* box envelope emits no event for it and does not update its peer table from
\* it; only the node the box was made for dispatches the inner packet.
C13_OnlyAddresseeDispatchesBox ==
    /\ [] (\A n \in Nodes : \A h \in DOMAIN dispatched[n] :
              IsBox(h.h) => h.h.e.to = EkOf(n))
    /\ [][\A n \in Nodes : \A h \in FirstSeen(n) :
            (IsBox(h.h) /\ h.h.e.to # EkOf(n) /\ h.h.ek # EkOf(n)) =>
                /\ \A ev \in out' : ev[1] # n
                /\ peers'[n] = peers[n]
                /\ lastcount'[n] = lastcount[n]
                /\ dispatched'[n] = dispatched[n]]_vars

\* B has dispatched a directed message of A that C has observed too
C13_ThirdNodeObservedBox ==
    \E h \in seen["C"] :
        /\ IsBox(h.h)
        /\ PacketOf(h).y = "m"
        /\ h \in DOMAIN dispatched["B"]
        /\ h \notin DOMAIN dispatched["C"]
        /\ peers["C"] = Empty

\* C18: a received packet whose identifier i differs from the local
\* identifier, or whose send time t satisfies t + timeout < now, is discarded:
\* no event is emitted for it and the peer table is not changed by it.
C18_ForeignOrStaleDiscarded ==
    [][\A n \in Nodes : \A h \in FirstSeen(n) :
          (PacketOf(h).i # Identifier \/ PacketOf(h).t + Timeout < now) =>
              /\ \A ev \in out' : ev[1] # n
              /\ peers'[n] = peers[n]
              /\ lastcount'[n] = lastcount[n]
              /\ dispatched'[n] = dispatched[n]]_vars

\* B has received and not dispatched a packet of the other channel and a
\* packet of A that is older than the timeout
C18_BothDiscarded ==
    \E h1, h2 \in seen["B"] \ DOMAIN dispatched["B"] :
        /\ PacketOf(h1).i # Identifier
        /\ PacketOf(h2).i = Identifier
        /\ PacketOf(h2).pk = PkOf("A")
        /\ PacketOf(h2).t + Timeout < now
        /\ peers["B"] = Empty

\* the reasons for which the claim lets node n reject the packet with hash h
RejectedAsStated(n, h) ==
    \/ ~CheckSig(Unpack(h.h))
    \/ PacketOf(h).i # identifier[n]
    \/ PacketOf(h).t + Timeout < now

\* C33: a well-formed received packet is rejected exactly when its signature
\* is invalid, or its i differs from the local identifier, or t + timeout <
\* now; every other packet, including one with t + timeout = now, updates the
\* peer table and is dispatched by its type.  (Violated: the code accepts
\* only t + timeout > now.)
C33_RejectedExactlyWhenStated ==
    [][\A n \in Nodes : \A h \in FirstSeen(n) :
          (PacketOf(h).pk # PkOf(n) /\ Opens(n, h.h)) =>
              /\ RejectedAsStated(n, h) <=> h \notin DOMAIN dispatched'[n]
              /\ ~RejectedAsStated(n, h) =>
                    Address(PacketOf(h).pk) \in DOMAIN peers'[n]]_vars

\* C40: the peer table of a node never holds the node's own address, and no
\* step emits a seen event of a node for its own address: neither its own
\* presence record nor a packet signed with its own key creates the entry.
C40_NeverOwnAddress ==
    \A n \in Nodes :
        /\ AddressOf(n) \notin DOMAIN peers[n]
        /\ <<n, "seen", AddressOf(n)>> \notin out

\* A, whose presence record is written, has dispatched a packet signed with
\* its own key
C40_OwnPacketDispatched ==
    /\ presence[AddressOf("A")] # NoRecord
    /\ \E h \in DOMAIN dispatched["A"] : PacketOf(h).pk = PkOf("A")

\* C32: once the overlay of a node has been destroyed, its trim timer is not
\* running, whether destroy() came after or before the key initialisation of
\* the constructor completed.
\* (Violated: the constructor starts the timer when SHOGUN_SEA.pair() returns,
\* also after destroy().)
C32_NoTrimAfterDestroy ==
    \A n \in Nodes : ~attached[n] => ~cleanupInterval[n]

\* C39: the overlay key pair of a node is generated once, and every pair it
\* has sent in a peer request is the pair it holds now, with which it encrypts
\* and decrypts.
\* (Violated: every seen event that arrives while this.sea is null starts
\* another SHOGUN_SEA.pair(), and each result replaces this.sea.)
C39_KeyPairFixed ==
    \A n \in Nodes :
        /\ paired[n] <= 1
        /\ \A ad \in advertised[n] : ad[2] = sea[n]

\* the step is the peer handler of node n storing the keys of a peer request
\* that lies in the graph and that n dispatches in this step
PeerHandlerStep(n) ==
    \E e \in store :
        LET message == FromBase64(e.m)
            packet == Unpack(message).p
        IN  /\ Authenticated(n, message)
            /\ Hash(message) \in DOMAIN dispatched'[n]
            /\ packet.y = "r"
            /\ packet.c = "peer"
            /\ ypeers'[n] = Put(ypeers[n], Address(packet.pk),
                   [pub |-> JsonParse(packet.a)[2].pub,
                    epub |-> JsonParse(packet.a)[2].epub])

\* C31: the overlay peer table of a node changes only in a step in which the
\* node's peer handler stores the keys of a peer request; every other step
\* (seen, left, timeout, presence updates, leave packets, heartbeat eviction,
\* overlay send and receive, trim, destroy) leaves it as it is.
C31_OnlyPeerHandlerWrites ==
    [][\A n \in Nodes : ypeers'[n] # ypeers[n] => PeerHandlerStep(n)]_vars

\* A holds the overlay keys of B while B is not in A's channel peer table
\* any more, having left or timed out
C31_KeysOutliveChannelPeer ==
    /\ AddressOf("B") \in DOMAIN ypeers["A"]
    /\ AddressOf("B") \notin DOMAIN peers["A"]

\* C16: send(address, value) and rpc(address, name, args, callback) with an
\* address that is not in the peer table fail synchronously with an error and
\* leave the state unchanged: nothing is written to the graph, nothing is
\* added to the seen set or to the pending calls.  (Violated: send(address, v)
\* with a falsy v does not look at the peer table, see C12.)
C16_UnknownPeerFailsCleanly ==
    /\ [][(\E ev \in out' : ev[2] = "throw") =>
              UNCHANGED <<store, seen, callbacks, peers>>]_vars
    /\ [][\A h \in DOMAIN sent' \ DOMAIN sent :
              sent'[h].to # Nil => sent'[h].to \in DOMAIN peers[sent'[h].by]]_vars

-----------------------------------------------------------------------------
(* Claims about the file transfer *)

\* C3: on every path (final sweep, timeout sweep, retransmission reply) the
\* receiver emits file-received for a transfer only when a chunk is stored for
\* every index in [0, total_chunks).
C3_EmitsOnlyWhenComplete ==
    \A i \in 1..Len(received) :
        \A k \in 0..(received[i].metadata.totalChunks - 1) :
            k \in DOMAIN received[i].chunks

\* a timeout sweep has ended with every chunk stored and file-received emitted
C3_EmittedAfterTimeoutSweep ==
    \E f \in DOMAIN rx :
        /\ rx[f].mode = "timeout"
        /\ ~rx[f].sweepTimer
        /\ \E i \in 1..Len(received) : received[i].event.fileId = f

\* the chunks sendFile of sender s writes, by index
SenderChunks(s) ==
    [i \in 0..(Metadata(s).totalChunks - 1) |->
        ChunkAt(ArrayBufferToBase64(FileOf(s)), i)]

\* C27: file transfers are confined to their channel: a sendFile by an engine
\* on another channel identifier never activates a receive (file detection,
\* chunk subscription, file-received) on the receiver, the graph being
\* shared.  (Violated: files/ and chunks/ are read and written at the root
\* of the graph, not under the channel.)
C27_TransfersConfinedToChannel ==
    /\ \A f \in DOMAIN rx :
          \E n \in Nodes : /\ identifier[n] = identifier[Receiver]
                            /\ rx[f].metadata.sender = AddressOf(n)
    /\ \A i \in DOMAIN received :
          \E n \in Nodes : /\ identifier[n] = identifier[Receiver]
                            /\ received[i].metadata.sender = AddressOf(n)

\* the step is the transfer timeout of f firing: the timer is gone and no
\* chunk was stored (the chunk listener clears the timer only on storing the
\* last chunk)
TimeoutFired(f) ==
    /\ f \in DOMAIN rx
    /\ rx[f].timeoutId
    /\ ~rx'[f].timeoutId
    /\ rx'[f].collectedChunks = rx[f].collectedChunks

\* C28: for every activated receive, if the transfer timeout fires before the
\* final sweep has been entered, the chunk subscription is detached and the
\* timeout sweep procedure runs, whatever number of chunks (zero included)
\* has been received.  (Violated: the handler does nothing when no chunk has
\* been collected.)
C28_TimeoutAlwaysSweeps ==
    [][\A f \in TransferCodes :
          (TimeoutFired(f) /\ ~rx[f].isProcessing) =>
              /\ ~rx'[f].listening
              /\ rx'[f].isProcessing
              /\ rx'[f].mode = "timeout"
              /\ rx'[f].sweepTimer]_vars

\* C4: whenever file-received is emitted for a transfer, the data is the
\* decoded in-order concatenation of the sender's chunks 0..total_chunks-1 and
\* the size reported is metadata.size, the length of that data.  (Violated
\* when two senders share a transfer code, see C7.)
C4_DataIsSendersChunks ==
    \A i \in 1..Len(received) :
        \E s \in Senders :
            /\ received[i].metadata.sender = AddressOf(s)
            /\ received[i].event.data =
                   Base64Decode(ConcatFrom(SenderChunks(s), 0, Metadata(s).totalChunks))
            /\ received[i].event.size = received[i].metadata.size
            /\ Len(received[i].event.data) = received[i].metadata.size

\* the results of the request-chunks calls answered to the receiver
ChunkReplies ==
    {JsonParse(Unpack(h.h).p.rr) : h \in ResponsesDispatched(Receiver)}

\* C5: a receiver that has all but one chunk when its timeout fires, whose
\* sender is in its peer table and holds the cache entry, emits file-received
\* once the request-chunks request and its response have been delivered.
\* (Violated: the response never reaches the callback, see C10.)
C5_RetransmissionCompletes ==
    \A f \in DOMAIN rx :
        ( /\ rx[f].mode = "requested"
          /\ \E res \in ChunkReplies :
                /\ Success(res)
                /\ res[2].fileId = f
                /\ AllChunksPresent(WithReplyChunks(rx[f].receivedChunks,
                                                    res[2].chunks),
                                    rx[f].metadata.totalChunks) )
        => \E i \in 1..Len(received) : received[i].event.fileId = f

\* C6: a receiver missing a chunk after the timeout sweeps, whose sender has
\* evicted the cache entry, emits no file-received, lets no error escape, and
\* has its processing flag cleared once the failure reply has been delivered.
\* (Violated: the reply never reaches the callback, see C10.)
C6_CacheMissUnblocks ==
    \A f \in DOMAIN rx :
        ( /\ rx[f].mode = "requested"
          /\ sending[Sender].pc = "done"
          /\ f \notin DOMAIN chunkCache[Sender]
          /\ \E res \in ChunkReplies : ~Success(res) )
        => /\ ~rx[f].isProcessing
           /\ \A i \in 1..Len(received) : received[i].event.fileId # f
           /\ ~uncaught

\* C36: when a sweep procedure of the receiver ends, it writes a packet only
\* if metadata.sender is in the peer table of the channel, and no error
\* escapes from its timer callback.
\* (Violated: transfer-confirmed after the timeout sweeps is sent to a sender
\* that is not in the peer table, and rpc throws inside the timer.)
C36_ReceivePathNeverThrows ==
    [][\A f \in DOMAIN rx :
          (rx[f].sweepTimer /\ ~rx'[f].sweepTimer) =>
              /\ uncaught' = uncaught
              /\ store' # store =>
                    rx[f].metadata.sender \in DOMAIN peers[Receiver]]_vars

\* C37: a reception, once activated for a transfer id, is never activated
\* again (its metadata stay, its timeout is not re-armed, its chunk listener
\* is not re-attached), no reception is activated for metadata whose sender
\* is the receiver itself, and file-received is emitted at most once per
\* transfer id.
C37_OneReceptionPerTransfer ==
    [][/\ \A f \in DOMAIN rx :
             /\ f \in DOMAIN rx'
             /\ rx'[f].metadata = rx[f].metadata
             /\ rx'[f].timeoutId => rx[f].timeoutId
             /\ rx'[f].listening => rx[f].listening
       /\ \A f \in DOMAIN rx' : rx'[f].metadata.sender # AddressOf(Receiver)
       /\ \A i, j \in 1..Len(received') :
             received'[i].event.fileId = received'[j].event.fileId => i = j]_vars

\* both metadata records are published, the receiver's own among them, and
\* the receiver has emitted file-received for the transfer
C37_ReceivedBesideOwnMetadata ==
    /\ \E m \in files : m.metadata.sender = AddressOf(Receiver)
    /\ \E m \in files : m.metadata.sender = AddressOf(Sender)
    /\ Len(received) = 1

\* the step is the 2 s timer of the sweep procedure of transfer f
SweepTimerStep(f) ==
    /\ rx[f].sweepTimer
    /\ \/ rx'[f].sweepAttempts # rx[f].sweepAttempts
       \/ ~rx'[f].sweepTimer

\* the decisions a sweep procedure can take for transfer f when it ends
SweepDecisions(f) ==
    {d \in {"deliver", "request", "fail"} :
        \/ d = "deliver" /\ Len(received') = Len(received) + 1
        \/ d = "request" /\ rx'[f].mode = "requested"
        \/ d = "fail" /\ ~rx'[f].isProcessing}

\* C35: a sweep procedure (final or timeout) starts with its first sweep and
\* never makes more than 5; its timer stops it when no index is missing;
\* while it sweeps no decision is taken, and when it stops it takes exactly one
\* of the decisions deliver, request retransmission, fail.
C35_SweepsTerminate ==
    [][\A f \in DOMAIN rx' :
          /\ rx'[f].sweepTimer => rx'[f].sweepAttempts \in 1..5
          /\ (f \in DOMAIN rx /\ SweepTimerStep(f)) =>
                /\ AllChunksPresent(rx[f].receivedChunks,
                                    rx[f].metadata.totalChunks)
                      => ~rx'[f].sweepTimer
                /\ rx'[f].sweepTimer =>
                      /\ rx'[f].sweepAttempts = rx[f].sweepAttempts + 1
                      /\ SweepDecisions(f) = {}
                /\ ~rx'[f].sweepTimer =>
                      /\ rx'[f].sweepAttempts = rx[f].sweepAttempts
                      /\ Cardinality(SweepDecisions(f)) = 1]_vars

\* a timeout sweep procedure has ended after its fifth sweep by requesting
\* the missing chunk
C35_FiveSweepsThenRequest ==
    \E f \in DOMAIN rx :
        /\ rx[f].sweepAttempts = 5
        /\ ~rx[f].sweepTimer
        /\ rx[f].mode = "requested"

\* C34: for every transfer in reception the count of received chunks is the
\* number of distinct indices stored and is at most totalChunks, only indices
\* of 0..totalChunks-1 are stored, and a count that has reached totalChunks
\* means that every index of the range is present.
\* (Violated: the listener and the sweeps store a chunk of any index.)
C34_CountIsIndicesInRange ==
    \A f \in DOMAIN rx :
        LET r == rx[f]
        IN  /\ r.collectedChunks = Cardinality(DOMAIN r.receivedChunks)
            /\ r.collectedChunks <= r.metadata.totalChunks
            /\ DOMAIN r.receivedChunks \subseteq 0..(r.metadata.totalChunks - 1)
            /\ r.collectedChunks >= r.metadata.totalChunks =>
                  AllChunksPresent(r.receivedChunks, r.metadata.totalChunks)

\* C38: a receiver that has issued request-chunks for a transfer eventually
\* leaves the processing state: file-received is emitted for the transfer or
\* the processing flag is cleared.
\* (Violated: requestMissingChunks has no timer, and nothing else settles the
\* request when no reply reaches the callback.)
C38_RequestEventuallySettles ==
    \A f \in TransferCodes :
        (f \in DOMAIN rx /\ rx[f].mode = "requested")
            ~> (\/ f \in DOMAIN rx /\ ~rx[f].isProcessing
                \/ \E i \in 1..Len(received) : received[i].event.fileId = f)

\* C7: when two senders publish transfers under one transfer code, the
\* receiver keeps them apart by metadata.sender: every chunk it stores for the
\* transfer is a chunk of the sender named in the metadata, and every
\* file-received it emits is made of the chunks of that one sender.
\* (Violated: chunks are keyed by the transfer code alone.)
C7_SendersKeptApart ==
    /\ \A f \in DOMAIN rx : \A i \in DOMAIN rx[f].receivedChunks :
          \E s \in Senders :
              /\ rx[f].metadata.sender = AddressOf(s)
              /\ i \in DOMAIN SenderChunks(s)
              /\ rx[f].receivedChunks[i] = SenderChunks(s)[i]
    /\ \A k \in 1..Len(received) :
          \E s \in Senders :
              /\ received[k].metadata.sender = AddressOf(s)
              /\ \A i \in DOMAIN received[k].chunks :
                    /\ i \in DOMAIN SenderChunks(s)
                    /\ received[k].chunks[i] = SenderChunks(s)[i]

\* the number of chunk writes sendFile of the sender has made when it returns
ChunksWritten == sending[Sender].next

NextIndex(s) == IF sending[s].pc = "idle" THEN 0 ELSE sending[s].next

\* C30: sendFile writes the metadata record before any chunk, writes the
\* chunks in strictly ascending index order, one per pacing delay, stores the
\* sender cache entry only after the last chunk write, and emits
\* transfer-complete only after the cache entry exists.
C30_SendFileOrder ==
    /\ [](\A c \in chunks : \E m \in files : m.fileId = c.fileId)
    /\ [][/\ Cardinality(chunks' \ chunks) <= 1
          /\ \A c \in chunks' \ chunks :
                /\ c.index = NextIndex(Sender)
                /\ sending'[Sender].next = c.index + 1
                /\ \A d \in chunks : d.fileId = c.fileId => d.index < c.index]_vars
    /\ [](\A f \in DOMAIN chunkCache[Sender] :
             sending[Sender].next >= Metadata(Sender).totalChunks)
    /\ [][\A f \in DOMAIN chunkCache'[Sender] \ DOMAIN chunkCache[Sender] :
             chunks' = chunks]_vars
    /\ [][\A ev \in out' :
             ev[2] = "transfer-complete" => ev[3] \in DOMAIN chunkCache'[ev[1]]]_vars

\* a file of four chunks has been sent, every chunk replicated
C30_FourChunksSent ==
    /\ sending[Sender].pc = "done"
    /\ Metadata(Sender).totalChunks = 4
    /\ Cardinality(chunks) = 4
    /\ sending[Sender].fileId \in DOMAIN chunkCache[Sender]

-----------------------------------------------------------------------------
(* Claims about the sender cache *)

\* the step handles a transfer-confirmed request for f at the sender
ConfirmHandled(f) ==
    \E ev \in out' :
        /\ ev[1] = Sender
        /\ ev[2] = "rpc"
        /\ ev[3][2] = "transfer-confirmed"
        /\ ev[3][3][2].fileId = f

\* the step is a destroy() of the sender: it writes the sender's leave packet
DestroyCalled ==
    \E e \in store' \ store :
        /\ ~IsBox(FromBase64(e.m))
        /\ FromBase64(e.m).p.y = "x"
        /\ FromBase64(e.m).p.pk = PkOf(Sender)

\* the transfer-confirmed requests the receiver writes in this step
ConfirmsWritten ==
    {e \in store' \ store : /\ EntryPacket(e).y = "r"
                            /\ EntryPacket(e).c = "transfer-confirmed"
                            /\ EntryPacket(e).pk = PkOf(Receiver)}

\* the file ids of the transfer-confirmed requests the sender has handled
ConfirmedFiles ==
    {JsonParse(PacketOf(h).a)[2].fileId :
        h \in {g \in DOMAIN dispatched[Sender] :
                  PacketOf(g).y = "r" /\ PacketOf(g).c = "transfer-confirmed"}}

\* C23: the receiver invokes transfer-confirmed for a fileId only after it has
\* emitted file-received for that fileId and only towards metadata.sender;
\* once the sender has handled the request its cache holds no entry for that
\* fileId (so that a later request-chunks for it is answered success:false).
\* (Violated: a sendFile that is still between its last chunk write and
\* chunkCache.set stores the entry after the confirmation was handled.)
C23_ConfirmedMeansUncached ==
    /\ [][\A e \in ConfirmsWritten :
            LET f == JsonParse(EntryPacket(e).a)[2].fileId
            IN  /\ \E i \in DOMAIN received' : received'[i].event.fileId = f
                /\ IsBox(FromBase64(e.m))
                /\ \E n \in Nodes :
                      /\ rx[f].metadata.sender = AddressOf(n)
                      /\ FromBase64(e.m).e.to = EkOf(n)]_vars
    /\ [][\A f \in TransferCodes :
            ConfirmHandled(f) => f \notin DOMAIN chunkCache'[Sender]]_vars
    /\ [](\A f \in ConfirmedFiles : f \notin DOMAIN chunkCache[Sender])

\* the results of the rpc responses the sender writes in this step
RepliesWritten ==
    {JsonParse(EntryPacket(e).rr)[2] :
        e \in {d \in store' \ store : /\ EntryPacket(d).y = "rr"
                                      /\ EntryPacket(d).pk = PkOf(Sender)}}

\* C29: the request-chunks handler replies {success:false, error:'File not
\* in cache'} exactly when the fileId has no cache entry; otherwise it replies
\* success:true with exactly the pairs (i, cache[i]) for the requested
\* indices i that exist in the cache; in both cases the cache is unchanged.
C29_RequestChunksReply ==
    [][\A ev \in out' :
          (ev[1] = Sender /\ ev[2] = "rpc" /\ ev[3][2] = "request-chunks") =>
              LET f == ev[3][3][2].fileId
                  asked == ev[3][3][2].missingChunks
              IN  /\ chunkCache' = chunkCache
                  /\ Cardinality(RepliesWritten) = 1
                  /\ \A res \in RepliesWritten :
                        IF f \notin DOMAIN chunkCache[Sender]
                        THEN res = [success |-> FALSE, error |-> "File not in cache"]
                        ELSE /\ res.success
                             /\ res.chunks =
                                    {<<i, chunkCache[Sender][f].chunks[i]>> :
                                        i \in {j \in asked :
                                            j \in DOMAIN chunkCache[Sender][f].chunks}}
             ]_vars

\* the sender, holding the cache entry, has answered a request that names a
\* cached index and an index that is not in the cache
C29_AnsweredPartOfRequest ==
    \E e \in store :
        /\ EntryPacket(e).y = "rr"
        /\ EntryPacket(e).pk = PkOf(Sender)
        /\ JsonParse(EntryPacket(e).rr)[2].success
        /\ JsonParse(EntryPacket(e).rr)[2].chunks # {}
        /\ \E q \in store :
              /\ EntryPacket(q).y = "r"
              /\ EntryPacket(q).rn = EntryPacket(e).rn
              /\ MaxIndex \in JsonParse(EntryPacket(q).a)[2].missingChunks
              /\ Cardinality(JsonParse(EntryPacket(q).a)[2].missingChunks) >
                     Cardinality(JsonParse(EntryPacket(e).rr)[2].chunks)

\* every cache entry holds every chunk of the file, and the time it was stored
CacheEntriesComplete ==
    \A f \in DOMAIN chunkCache[Sender] :
        /\ chunkCache[Sender][f].chunks = SenderChunks(Sender)
        /\ chunkCache[Sender][f].timestamp <= now

\* C8 as stated: once sendFile has stored the cache entry for T at time c, the
\* cache contains T, with every chunk, at every time up to c + TTL unless a
\* transfer-confirmed request for T has been handled; the sweeper removes only
\* entries older than TTL.  (Violated: destroy() clears the cache.)
C8_CacheKeptUnlessConfirmed ==
    [][\A f \in DOMAIN chunkCache[Sender] :
          f \notin DOMAIN chunkCache'[Sender] =>
              \/ ConfirmHandled(f)
              \/ now - chunkCache[Sender][f].timestamp > CACHE_RETENTION]_vars

\* C8, amended: once sendFile has stored the cache entry for T at time c, the
\* cache contains T, with every chunk, at every time up to c + TTL unless a
\* transfer-confirmed request for T has been handled or destroy() has been
\* called; the sweeper removes only entries older than TTL.
C8_CacheKeptUnlessConfirmedOrDestroyed ==
    /\ [] CacheEntriesComplete
    /\ [][\A f \in DOMAIN chunkCache[Sender] :
            f \notin DOMAIN chunkCache'[Sender] =>
                \/ ConfirmHandled(f)
                \/ DestroyCalled
                \/ now - chunkCache[Sender][f].timestamp > CACHE_RETENTION]_vars

\* an entry is still cached when it is exactly TTL old
C8_CachedAtRetentionAge ==
    \E f \in DOMAIN chunkCache[Sender] :
        now = chunkCache[Sender][f].timestamp + CACHE_RETENTION

-----------------------------------------------------------------------------
(* Claims about teardown *)

\* C21: destroy() is idempotent: a second call on the same component writes
\* no additional leave packet to the graph, emits no event and leaves the
\* component as the first call left it.  (Violated: Yumi.destroy makes and
\* writes a fresh leave packet on every call.)
C21_DestroyIsIdempotent ==
    [][(~attached[Sender] /\ DestroyCalled) =>
          /\ store' = store
          /\ seen'[Sender] = seen[Sender]
          /\ out' = {}]_vars

\* C20: after destroy() has been called on the transfer engine, none of the
\* timers it owns fires any more and none of its graph subscriptions (files,
\* chunks, messages, presence) delivers a callback, so it writes nothing more
\* to the graph and emits no further event.  (Violated: Kunai.destroy leaves
\* the files and chunks listeners, the transfer timeout and the sweep timers
\* running.)
C20_DestroyedEngineIsSilent ==
    [][~attached[Receiver] =>
          /\ rx' = rx
          /\ received' = received
          /\ \A e \in store' \ store : EntryPacket(e).pk # PkOf(Receiver)]_vars

-----------------------------------------------------------------------------
(* Claims about the overlay *)

\* the peer handshake between the overlays of A and B is complete both ways
Handshaken ==
    /\ AddressOf("A") \in DOMAIN ypeers["B"]
    /\ AddressOf("B") \in DOMAIN ypeers["A"]

\* C14: after the peer handshake has completed in both directions between A
\* and B, every encrypted message of A that B's channel delivers makes B emit
\* decrypted(address of A, A's {pub, epub}, plaintext, id) (once, as the
\* channel delivers a packet once), with the plaintext A sent.  (Violated:
\* the listener takes the packet object for the message id and throws at
\* messageId.slice before it decrypts.)
C14_DeliveredMessageIsDecrypted ==
    [][\A h \in FirstDispatched("B") :
          ( /\ Handshaken
            /\ PacketOf(h).y = "m"
            /\ PacketOf(h).pk = PkOf("A")
            /\ JsonParse(PacketOf(h).v)[1] = "sea" ) =>
              \E ev \in out' :
                  /\ ev[1] = "B"
                  /\ ev[2] = "decrypted"
                  /\ ev[3][1] = AddressOf("A")
                  /\ ev[3][2] = SeaOf("A")
                  /\ ev[3][3] = JsonParse(PacketOf(h).v)[2].ct]_vars

\* the overlay of n cannot decrypt the message packet: the sender's keys are
\* unknown, or SEA.decrypt gives no plaintext
CannotDecrypt(n, packet) ==
    \/ Address(packet.pk) \notin DOMAIN ypeers[n]
    \/ SeaDecrypt(JsonParse(packet.v), ypeers[n][Address(packet.pk)].epub, n) = Nil

C17_DirectToUnknownFails ==
    /\ [] (\A n \in Nodes : \A call \in ypending[n] : ~Truthy(call[2]))
    /\ [][(\E ev \in out' : ev[2] = "throw") => UNCHANGED <<store, seen>>]_vars

\* C9: an overlay broadcast issued while the overlay peer table holds k peers
\* results in exactly k directed channel sends, one packet per overlay peer.
\* (Violated: the 'encoded' handler takes arrays of two elements and send
\* emits arrays of three, so no packet is written.)
C9_BroadcastSendsToEveryPeer ==
    ysends.sends = ysends.peers
====
